---------------------------- MODULE Spec2Model ----------------------------
(***************************************************************************)
(* Tile visualizer: the page's depth / segmentation requests, the          *)
(* TileOverlayCanvas component (image loading, edge mask, render effect)   *)
(* and the pixel routines of lib/occlusionMask.ts and lib/featherMask.ts.  *)
(*                                                                         *)
(* An ImageData is a record [width, height, data]; data is the flat RGBA    *)
(* byte array, kept as a sequence, so the code's data[i] is data[i + 1].   *)
(* Numbers the code keeps as floats are kept as exact rationals over a     *)
(* fixed denominator that is named where it is used.                       *)
(***************************************************************************)
EXTENDS Integers, Sequences, FiniteSets

VARIABLES
  \* lib/occlusionMask.ts combineMasks: its two arguments and its result
  maskA, maskB, combined,
  \* lib/occlusionMask.ts buildWallMask: its arguments and its result
  depthCall, depthMask,
  \* components/TileOverlayCanvas.tsx, one render pass on pixels: the props of
  \* the pass, the room image drawn at the output size, the edgeMask state
  \* and what the pass computed
  passProps, roomImageData, edgeMaskData, pass,
  \* the page (VisualizerPage): its state, the promises handleImageLoad left
  \* in flight, the wall overlay it mounts and what that overlay last drew
  roomImageUrl, pending, settled,
  depthMap, depthLoading, depthError,
  wallMask, wallMaskLoading, wallMaskError,
  floorMask, floorMaskLoading, floorMaskError,
  wallCorners, selectedWallTile, overlay, shown,
  \* one TileOverlayCanvas under app/page.tsx: its props, its refs and state,
  \* the Image objects whose onload has not fired yet, and the passes of the
  \* render effect in the latest commit
  overlayProps, imageRef, imageReady, roomImageRef, roomImageReady, edgeMask,
  tileImages, roomImages, passes,
  \* lib/tiledWall.ts drawQuadWarp: its arguments, the clip paths it drew the
  \* source into and where it took the corners of the source
  warpCall, warpOut,
  \* lib/tiledWall.ts renderTiledWall: its arguments and what it did
  tiledCall, tiledOut,
  \* the lighting step of a render pass: what it reads, and the lighting map,
  \* the canvas handed to renderTiledWall and what renderTiledWall did
  lightCall, lightOut,
  \* lib/featherMask.ts createFeatheredQuadMask: its arguments, the binary
  \* alpha it rasterized the quad into and the mask it returned
  featherCall, featherOut,
  \* the tile catalog: the answer of /api/tiles and the catalogs built from it
  catalogRes, catalogOut,
  \* lib/depth and lib/wallSegmentation: the module variables sessionPromise
  \* and cachedModel, where the load behind each of them stands, and the
  \* estimateDepth and segmentWall / segmentFloor calls made so far
  sessionPromise, sessionLoad, depthCalls, cachedModel, segCalls,
  \* fillWallFromBorder: its arguments, and its wall, queue and position
  fillIn, fill,
  \* the page with both surfaces (VisualizerPage of src/unnamed/part_008): its
  \* view mode, corner lists and selected tiles, and what the handlers of
  \* the last render closed over
  visualizer, rendered,
  \* smoothWallMask: its arguments and what it returned, for the mask and
  \* then for its own result
  smoothCall, smoothOut,
  \* the 2D contexts of one drawing call: what was asked for, and the states
  \* of the context drawn to, of the overlay's offscreen context and of
  \* renderTiledWall's offscreen context
  canvasCall, contexts

combineVars == <<maskA, maskB, combined>>
depthVars == <<depthCall, depthMask>>
renderVars == <<passProps, roomImageData, edgeMaskData, pass>>

pageVars ==
  <<roomImageUrl, pending, settled, depthMap, depthLoading, depthError,
    wallMask, wallMaskLoading, wallMaskError,
    floorMask, floorMaskLoading, floorMaskError,
    wallCorners, selectedWallTile, overlay, shown>>

overlayVars ==
  <<overlayProps, imageRef, imageReady, roomImageRef, roomImageReady, edgeMask,
    tileImages, roomImages, passes>>

warpVars == <<warpCall, warpOut>>

tiledVars == <<tiledCall, tiledOut>>

\* the variables of the calls of the tiling and warp routines
lightVars == <<lightCall, lightOut>>

featherVars == <<featherCall, featherOut>>

catalogVars == <<catalogRes, catalogOut>>
loaderVars == <<sessionPromise, sessionLoad, depthCalls, cachedModel, segCalls>>
fillVars == <<fillIn, fill>>
surfaceVars == <<visualizer, rendered>>
smoothVars == <<smoothCall, smoothOut>>
canvasVars == <<canvasCall, contexts>>

\* everything but the catalog, the model loaders, the corner lists and the
\* remaining pixel routines, and the variables of those
earlyVars ==
  <<combineVars, depthVars, renderVars, pageVars, overlayVars,
    warpVars, tiledVars, lightVars, featherVars>>
lateVars == <<catalogVars, loaderVars, fillVars, surfaceVars, smoothVars, canvasVars>>






notCatalogVars == <<earlyVars, loaderVars, fillVars, surfaceVars, smoothVars, canvasVars>>
notLoaderVars == <<earlyVars, catalogVars, fillVars, surfaceVars, smoothVars, canvasVars>>
notFillVars == <<earlyVars, catalogVars, loaderVars, surfaceVars, smoothVars, canvasVars>>
notSurfaceVars == <<earlyVars, catalogVars, loaderVars, fillVars, smoothVars, canvasVars>>
notSmoothVars == <<earlyVars, catalogVars, loaderVars, fillVars, surfaceVars, canvasVars>>
notCanvasVars == <<earlyVars, catalogVars, loaderVars, fillVars, surfaceVars, smoothVars>>

\* the variables of the calls of the tiling, warp, lighting and feather routines
callVars == <<warpVars, tiledVars, lightVars, featherVars, lateVars>>

vars == <<combineVars, depthVars, renderVars, pageVars, overlayVars, callVars>>

\* what the page's actions, and the overlay's, leave alone
notPageVars == <<combineVars, depthVars, renderVars, overlayVars, callVars>>
notOverlayVars == <<combineVars, depthVars, renderVars, pageVars, callVars>>

-----------------------------------------------------------------------------
(* JavaScript values the pixel code relies on *)

\* a read past the end of a typed array
Undefined == -1

\* Math.min / Math.max on two numbers; an undefined operand gives NaN,
\* which a Uint8ClampedArray stores as 0
NaN == -2

MathMin(a, b) ==
  IF a = Undefined \/ b = Undefined \/ a = NaN \/ b = NaN THEN NaN
  ELSE IF a <= b THEN a ELSE b

MathMax(a, b) ==
  IF a = Undefined \/ b = Undefined \/ a = NaN \/ b = NaN THEN NaN
  ELSE IF a >= b THEN a ELSE b

\* the conversion of a store into a Uint8ClampedArray (integers only here)
ToUint8Clamped(v) ==
  IF v = NaN \/ v = Undefined THEN 0
  ELSE IF v < 0 THEN 0 ELSE IF v > 255 THEN 255 ELSE v

\* forces a sequence built by a comprehension into an explicit tuple
Seal(s) == s \o <<>>

\* a const declaration: the value v is computed once and F reads it
Once(v, F(_)) == CHOOSE r \in {F(x) : x \in {v}} : TRUE

\* data[i] of a typed array, i counted from 0
At(data, i) == IF i >= 0 /\ i < Len(data) THEN data[i + 1] ELSE Undefined

\* new ImageData(width, height): transparent black
NewImageData(width, height) ==
  [width |-> width, height |-> height,
   data |-> Seal([i \in 1..(4 * width * height) |-> 0])]

\* the alpha bytes of an ImageData, one per pixel
AlphaOf(img) ==
  Seal([p \in 1..(img.width * img.height) |-> img.data[4 * (p - 1) + 4]])

\* an ImageData with the given RGB byte in every colour channel and the given alphas
MaskFrom(width, height, rgb, alpha) ==
  [width |-> width, height |-> height,
   data |-> Seal([i \in 1..(4 * width * height) |->
                    IF i % 4 = 0 THEN alpha[i \div 4] ELSE rgb])]

-----------------------------------------------------------------------------
(* lib/occlusionMask.ts: combineMasks *)

\* the same with Math.max in place of Math.min
combineMasksMax(width, height, mA, mB) ==
  [width |-> width, height |-> height,
   data |-> Seal([i \in 1..(4 * width * height) |->
                    IF i % 4 = 0
                      THEN ToUint8Clamped(MathMax(At(mA.data, i - 1), At(mB.data, i - 1)))
                      ELSE 255])]

\* out.data[i..i+2] = 255, out.data[i+3] = Math.min(maskA.data[i+3], maskB.data[i+3])
combineMasks(width, height, mA, mB) ==
  [width |-> width, height |-> height,
   data |-> Seal([i \in 1..(4 * width * height) |->
                    IF i % 4 = 0
                      THEN ToUint8Clamped(MathMin(At(mA.data, i - 1), At(mB.data, i - 1)))
                      ELSE 255])]

-----------------------------------------------------------------------------
(* lib/featherMask.ts (second half of src/lib/wallSegmentation.ts) *)

Abs(n) == IF n < 0 THEN 0 - n ELSE n

Clamp(lo, hi, v) == IF v < lo THEN lo ELSE IF v > hi THEN hi ELSE v

\* Math.round(sum / size) for sum >= 0, size > 0 (round half up)
RoundDiv(sum, size) == (2 * sum + size) \div (2 * size)

\* twice cross(a, b, q) for q the pixel centre (x + 0.5, y + 0.5); corners are
\* integer points, so doubling keeps the value an integer and keeps its sign
cross2(a, b, x, y) ==
  (b.x - a.x) * ((2 * y + 1) - 2 * a.y) - (b.y - a.y) * ((2 * x + 1) - 2 * a.x)

\* insideQuad accepting the non-negative cross products only
insideQuadOneWinding(quad, x, y) ==
  /\ cross2(quad[1], quad[2], x, y) >= 0
  /\ cross2(quad[2], quad[3], x, y) >= 0
  /\ cross2(quad[3], quad[4], x, y) >= 0
  /\ cross2(quad[4], quad[1], x, y) >= 0

\* insideQuad(quad, x + 0.5, y + 0.5): all four cross products of one sign
insideQuad(quad, x, y) ==
  LET c0 == cross2(quad[1], quad[2], x, y)
      c1 == cross2(quad[2], quad[3], x, y)
      c2 == cross2(quad[3], quad[4], x, y)
      c3 == cross2(quad[4], quad[1], x, y)
  IN  \/ (c0 >= 0 /\ c1 >= 0 /\ c2 >= 0 /\ c3 >= 0)
      \/ (c0 <= 0 /\ c1 <= 0 /\ c2 <= 0 /\ c3 <= 0)

\* alpha[clamp(y) * width + clamp(x)]
get(alpha, width, height, x, y) ==
  alpha[Clamp(0, height - 1, y) * width + Clamp(0, width - 1, x) + 1]

\* the values of the (2r+1) x (2r+1) window around (x, y), clamped at the border
WindowValues(alpha, width, height, x, y, r) ==
  {get(alpha, width, height, x + dx, y + dy) : dx \in (0 - r)..r, dy \in (0 - r)..r}

\* the sum over one row of the window, dx counting from -r
RECURSIVE WindowRowSum(_, _, _, _, _, _, _)
WindowRowSum(alpha, width, height, x, yy, r, dx) ==
  IF dx > r THEN 0
  ELSE get(alpha, width, height, x + dx, yy)
       + WindowRowSum(alpha, width, height, x, yy, r, dx + 1)

\* the sum over the window, dy counting its rows from -r
RECURSIVE WindowSum(_, _, _, _, _, _, _)
WindowSum(alpha, width, height, x, y, r, dy) ==
  IF dy > r THEN 0
  ELSE WindowRowSum(alpha, width, height, x, y + dy, r, 0 - r)
       + WindowSum(alpha, width, height, x, y, r, dy + 1)

\* let max = 0; max = Math.max(max, v) over the window
WindowMax(alpha, width, height, x, y, r) ==
  LET vals == WindowValues(alpha, width, height, x, y, r) \cup {0}
  IN  CHOOSE m \in vals : \A v \in vals : v <= m

\* let min = 255; min = Math.min(min, v) over the window
WindowMin(alpha, width, height, x, y, r) ==
  LET vals == WindowValues(alpha, width, height, x, y, r) \cup {255}
  IN  CHOOSE m \in vals : \A v \in vals : m <= v

\* the box blur both blurAlpha and smoothWallMask apply, for an effective radius r
BoxBlur(alpha, width, height, r) ==
  Seal([p \in 1..(width * height) |->
          RoundDiv(WindowSum(alpha, width, height, (p - 1) % width, (p - 1) \div width, r, 0 - r),
                   (2 * r + 1) * (2 * r + 1))])

\* blurAlpha: r = Math.max(1, radius)
blurAlpha(alpha, width, height, radius) ==
  BoxBlur(alpha, width, height, IF radius < 1 THEN 1 ELSE radius)

\* the alpha createFeatheredQuadMask fills before it blurs: 255 where the
\* pixel centre passes insideQuad, 0 elsewhere
quadAlpha(width, height, quad) ==
  Seal([p \in 1..(width * height) |->
          IF insideQuad(quad, (p - 1) % width, (p - 1) \div width) THEN 255 ELSE 0])

createFeatheredQuadMask(width, height, quad, featherPx) ==
  LET alpha == quadAlpha(width, height, quad)
      radius == IF featherPx \div 2 < 1 THEN 1 ELSE featherPx \div 2
  IN  MaskFrom(width, height, 255, blurAlpha(alpha, width, height, radius))

-----------------------------------------------------------------------------
(* lib/occlusionMask.ts: smoothWallMask *)

Dilate(alpha, width, height, r) ==
  Seal([p \in 1..(width * height) |->
          WindowMax(alpha, width, height, (p - 1) % width, (p - 1) \div width, r)])

Erode(alpha, width, height, r) ==
  Seal([p \in 1..(width * height) |->
          WindowMin(alpha, width, height, (p - 1) % width, (p - 1) \div width, r)])

\* the morphological close: max filter, then min filter, of the same radius
CloseAlpha(alpha, width, height, closeRadius) ==
  IF closeRadius > 0
    THEN Erode(Dilate(alpha, width, height, closeRadius), width, height, closeRadius)
    ELSE alpha

\* the same without the min filter of the close
smoothWallMaskNoErode(mask, closeRadiusOpt, edgeBlurPxOpt) ==
  LET width == mask.width
      height == mask.height
      closeRadius == Clamp(0, 5, closeRadiusOpt)
      edgeBlurPx == Clamp(0, 4, edgeBlurPxOpt)
      closed == IF closeRadius > 0 THEN Dilate(AlphaOf(mask), width, height, closeRadius)
                ELSE AlphaOf(mask)
      blurred == IF edgeBlurPx > 0 THEN BoxBlur(closed, width, height, edgeBlurPx)
                 ELSE closed
  IN  MaskFrom(width, height, 255, blurred)

smoothWallMask(mask, closeRadiusOpt, edgeBlurPxOpt) ==
  LET width == mask.width
      height == mask.height
      closeRadius == Clamp(0, 5, closeRadiusOpt)
      edgeBlurPx == Clamp(0, 4, edgeBlurPxOpt)
      closed == CloseAlpha(AlphaOf(mask), width, height, closeRadius)
      blurred == IF edgeBlurPx > 0 THEN BoxBlur(closed, width, height, edgeBlurPx)
                 ELSE closed
  IN  MaskFrom(width, height, 255, blurred)

-----------------------------------------------------------------------------
(* lib/occlusionMask.ts: sampleDepth, buildWallMask                        *)
(* A depth map is [depth, width, height] with integer samples.  A position *)
(* in depth-map coordinates is the rational xn / xd; a sampled depth is a  *)
(* numerator over xd * yd.  buildWallMask samples every position over the  *)
(* one denominator (4 * outputWidth) * (4 * outputHeight), which also      *)
(* holds the centroid's quarters.                                          *)

\* sampleDepth(depth, depthWidth, depthHeight, xn / xd, yn / yd) * (xd * yd)
sampleDepth(depth, depthWidth, depthHeight, xn, xd, yn, yd) ==
  LET x0 == Clamp(0, depthWidth - 1, xn \div xd)
      y0 == Clamp(0, depthHeight - 1, yn \div yd)
      x1 == Clamp(0, depthWidth - 1, x0 + 1)
      y1 == Clamp(0, depthHeight - 1, y0 + 1)
      fx == xn - x0 * xd
      fy == yn - y0 * yd
      v00 == depth[y0 * depthWidth + x0 + 1]
      v10 == depth[y0 * depthWidth + x1 + 1]
      v01 == depth[y1 * depthWidth + x0 + 1]
      v11 == depth[y1 * depthWidth + x1 + 1]
  IN  (xd - fx) * (yd - fy) * v00 + fx * (yd - fy) * v10
      + (xd - fx) * fy * v01 + fx * fy * v11

\* Array.prototype.sort((a, b) => a - b), as an insertion sort
RECURSIVE InsertSorted(_, _)
InsertSorted(sorted, v) ==
  IF sorted = <<>> THEN <<v>>
  ELSE IF v < Head(sorted) THEN <<v>> \o sorted
  ELSE <<Head(sorted)>> \o InsertSorted(Tail(sorted), v)

RECURSIVE SortNumbers(_)
SortNumbers(s) ==
  IF s = <<>> THEN <<>> ELSE InsertSorted(SortNumbers(Tail(s)), Head(s))

\* depthAt(px, py) * DepthDen, for px = pxn / 4 and py = pyn / 4 in output pixels
DepthDen(outputWidth, outputHeight) == (4 * outputWidth) * (4 * outputHeight)

depthAt(dm, outputWidth, outputHeight, pxn, pyn) ==
  sampleDepth(dm.depth, dm.width, dm.height,
              pxn * dm.width, 4 * outputWidth, pyn * dm.height, 4 * outputHeight)

\* the five samples: the four corners, then the centroid
wallSamples(dm, quad, outputWidth, outputHeight) ==
  <<depthAt(dm, outputWidth, outputHeight, 4 * quad[1].x, 4 * quad[1].y),
    depthAt(dm, outputWidth, outputHeight, 4 * quad[2].x, 4 * quad[2].y),
    depthAt(dm, outputWidth, outputHeight, 4 * quad[3].x, 4 * quad[3].y),
    depthAt(dm, outputWidth, outputHeight, 4 * quad[4].x, 4 * quad[4].y),
    depthAt(dm, outputWidth, outputHeight,
            quad[1].x + quad[2].x + quad[3].x + quad[4].x,
            quad[1].y + quad[2].y + quad[3].y + quad[4].y)>>

\* samples.sort(...); wallDepth = samples[Math.floor(samples.length / 2)]
wallDepthOf(dm, quad, outputWidth, outputHeight) ==
  SortNumbers(wallSamples(dm, quad, outputWidth, outputHeight))[(5 \div 2) + 1]

\* diff <= delta, for delta = Math.max(1e-5, |wallDepth| * tolerancePercent);
\* diff and wallDepth are numerators over den, the tolerance is in hundredths
WithinDelta(diff, wallDepth, den, toleranceHundredths) ==
  \/ diff * 100000 <= den
  \/ diff * 100 <= Abs(wallDepth) * toleranceHundredths

\* a strict test without the tolerance: d < wallDepth, or d > wallDepth
isWallStrict(d, wallDepth, den, toleranceHundredths, depthCloserIsHigher) ==
  IF depthCloserIsHigher THEN d < wallDepth ELSE d > wallDepth

\* a two-sided test: wallDepth - delta <= d <= wallDepth + delta
isWallBand(d, wallDepth, den, toleranceHundredths, depthCloserIsHigher) ==
  /\ WithinDelta(d - wallDepth, wallDepth, den, toleranceHundredths)
  /\ WithinDelta(wallDepth - d, wallDepth, den, toleranceHundredths)

\* isWall = depthCloserIsHigher ? d <= wallDepth + delta : d >= wallDepth - delta
isWall(d, wallDepth, den, toleranceHundredths, depthCloserIsHigher) ==
  IF depthCloserIsHigher
    THEN WithinDelta(d - wallDepth, wallDepth, den, toleranceHundredths)
    ELSE WithinDelta(wallDepth - d, wallDepth, den, toleranceHundredths)

buildWallMask(dm, quad, outputWidth, outputHeight, toleranceHundredths, depthCloserIsHigher) ==
  LET wallDepth == wallDepthOf(dm, quad, outputWidth, outputHeight)
      den == DepthDen(outputWidth, outputHeight)
      alpha == Seal([p \in 1..(outputWidth * outputHeight) |->
                 IF isWall(depthAt(dm, outputWidth, outputHeight,
                                   4 * ((p - 1) % outputWidth), 4 * ((p - 1) \div outputWidth)),
                           wallDepth, den, toleranceHundredths, depthCloserIsHigher)
                   THEN 255 ELSE 0])
  IN  MaskFrom(outputWidth, outputHeight, 255, alpha)

-----------------------------------------------------------------------------
(* lib/occlusionMask.ts: buildOcclusionMask, occlusionMaskToWallMask       *)
(* Room images of the model are grey (r = g = b) and constant along each   *)
(* column, so the luminance and Math.hypot(gx, 0) are integers.            *)

\* 0.299 r + 0.587 g + 0.114 b
Luminance(r, g, b) == (299 * r + 587 * g + 114 * b) \div 1000

\* Math.hypot(gx, gy) where it is an integer
Hypot(gx, gy) == CHOOSE m \in 0..(Abs(gx) + Abs(gy)) : m * m = gx * gx + gy * gy

\* s[lo] + ... + s[hi]
RECURSIVE SumRange(_, _, _)
SumRange(s, lo, hi) ==
  IF lo > hi THEN 0
  ELSE IF lo = hi THEN s[lo]
  ELSE SumRange(s, lo, (lo + hi) \div 2) + SumRange(s, ((lo + hi) \div 2) + 1, hi)

\* the Sobel magnitude of every pixel; the border rows and columns stay 0
SobelMagnitude(gray, width, height) ==
  Seal([p \in 1..(width * height) |->
    LET x == (p - 1) % width
        y == (p - 1) \div width
    IN  IF x < 1 \/ x > width - 2 \/ y < 1 \/ y > height - 2 THEN 0
        ELSE LET a == gray[p - width - 1]
                 b == gray[p - width]
                 c == gray[p - width + 1]
                 d == gray[p - 1]
                 f == gray[p + 1]
                 g == gray[p + width - 1]
                 h == gray[p + width]
                 iVal == gray[p + width + 1]
             IN  Hypot((0 - a) - 2 * d - g + c + 2 * f + iVal,
                       (0 - a) - 2 * b - c + g + 2 * h + iVal)])

\* mask[i] = magnitude[i] > Math.max(8, avg * 0.85) ? 255 : 0, avg = sum / (width * height)
EdgeThreshold(magnitude, width, height) ==
  LET sum == SumRange(magnitude, 1, width * height)
  IN  Seal([p \in 1..(width * height) |->
              IF magnitude[p] > 8 /\ magnitude[p] * 100 * width * height > 85 * sum
                THEN 255 ELSE 0])

\* one pass of the 8-neighbour dilation, neighbours outside the image skipped
DilateOnce(mask, width, height) ==
  Seal([p \in 1..(width * height) |->
    LET x == (p - 1) % width
        y == (p - 1) \div width
    IN  IF \E ky \in {-1, 0, 1}, kx \in {-1, 0, 1} :
             /\ x + kx >= 0 /\ x + kx < width /\ y + ky >= 0 /\ y + ky < height
             /\ mask[(y + ky) * width + (x + kx) + 1] # 0
          THEN 255 ELSE 0])

RECURSIVE DilateTimes(_, _, _, _)
DilateTimes(mask, width, height, iterations) ==
  IF iterations = 0 THEN mask
  ELSE DilateTimes(DilateOnce(mask, width, height), width, height, iterations - 1)

\* the 3 x 3 mean over the neighbours inside the image, rounded
Soften(mask, width, height) ==
  Seal([p \in 1..(width * height) |->
    LET x == (p - 1) % width
        y == (p - 1) \div width
        inside == {k \in (-1..1) \X (-1..1) :
                     /\ x + k[1] >= 0 /\ x + k[1] < width
                     /\ y + k[2] >= 0 /\ y + k[2] < height}
        hits == {k \in inside : mask[(y + k[2]) * width + (x + k[1]) + 1] # 0}
    IN  RoundDiv(255 * Cardinality(hits), Cardinality(inside))])

buildOcclusionMask(imageData, dilationIterations) ==
  LET width == imageData.width
      height == imageData.height
      gray == Seal([p \in 1..(width * height) |->
                      Luminance(imageData.data[4 * p - 3], imageData.data[4 * p - 2],
                                imageData.data[4 * p - 1])])
      edges == EdgeThreshold(SobelMagnitude(gray, width, height), width, height)
      softened == Soften(DilateTimes(edges, width, height, dilationIterations), width, height)
  IN  [width |-> width, height |-> height,
       data |-> Seal([i \in 1..(4 * width * height) |-> softened[(i + 3) \div 4]])]

\* out alpha = 255 - v, RGB 255
occlusionMaskToWallMask(occlusionMask) ==
  [width |-> occlusionMask.width, height |-> occlusionMask.height,
   data |-> Seal([i \in 1..(4 * occlusionMask.width * occlusionMask.height) |->
                    IF i % 4 = 0 THEN 255 - occlusionMask.data[i] ELSE 255])]

\* dilationIterations = 6 by default
DefaultDilationIterations == 6

-----------------------------------------------------------------------------
(* components/TileOverlayCanvas.tsx: the render effect, lines 174-222 and  *)
(* 319-329, on pixels                                                      *)

NoImage == [width |-> 0, height |-> 0, data |-> <<>>]

NoDepth == [depth |-> <<>>, width |-> 0, height |-> 0]

FEATHER_PX == 5
FLOOR_FEATHER_PX == 8
SmoothCloseRadius == 3
SmoothEdgeBlurPx == 2
\* tolerancePercent 0.15, in hundredths
DepthTolerance == 15

\* other orders of the three sources
OcclusionSourceWallFirst(hasDepth, hasWallMask, hasEdgeMask) ==
  IF hasWallMask THEN "wall"
  ELSE IF hasDepth THEN "depth"
  ELSE IF hasEdgeMask THEN "edge"
  ELSE "none"

OcclusionSourceEdgeFirst(hasDepth, hasWallMask, hasEdgeMask) ==
  IF hasEdgeMask THEN "edge"
  ELSE IF hasDepth THEN "depth"
  ELSE IF hasWallMask THEN "wall"
  ELSE "none"

\* if (depthMap) ... else if (wallMask) ...; if (!occlusionMask) edgeMask ? ... : null
\* (a 2d context is taken to be available, so a present wallMask always yields raw)
OcclusionSource(hasDepth, hasWallMask, hasEdgeMask) ==
  IF hasDepth THEN "depth"
  ELSE IF hasWallMask THEN "wall"
  ELSE IF hasEdgeMask THEN "edge"
  ELSE "none"

\* drawImage of the mask canvas scaled to width x height: the interpolation is
\* the browser's; the nearest source pixel stands for it
ScaledByCanvas(mask, width, height) ==
  [width |-> width, height |-> height,
   data |-> Seal([i \in 1..(4 * width * height) |->
     LET p == (i - 1) \div 4
         sx == (((p % width) * mask.width) \div width)
         sy == (((p \div width) * mask.height) \div height)
     IN  mask.data[4 * (sy * mask.width + sx) + ((i - 1) % 4) + 1]])]

\* the raw mask of the chosen source, before smoothing
RawOcclusion(source, props, edge) ==
  IF source = "depth"
    THEN buildWallMask(props.depthMap, props.corners, props.width, props.height,
                       DepthTolerance, props.depthCloserIsHigher)
  ELSE IF source = "wall"
    THEN IF props.wallMask.width = props.width /\ props.wallMask.height = props.height
           THEN props.wallMask
           ELSE ScaledByCanvas(props.wallMask, props.width, props.height)
  ELSE edge

\* occlusionMask = smoothWallMask(raw, smoothOpts), or null without a source
SmoothedOcclusion(source, props, edge) ==
  IF source = "none" THEN NoImage
  ELSE smoothWallMask(RawOcclusion(source, props, edge), SmoothCloseRadius, SmoothEdgeBlurPx)

\* the same with a missing occlusion mask combined as a transparent one
FinalMaskAlwaysCombined(width, height, quadMask, occlusionMask) ==
  combineMasks(width, height, quadMask,
               IF occlusionMask = NoImage THEN NewImageData(width, height) ELSE occlusionMask)

\* mask = occlusionMask ? combineMasks(width, height, quadMask, occlusionMask) : quadMask
FinalMask(width, height, quadMask, occlusionMask) ==
  IF occlusionMask # NoImage
    THEN combineMasks(width, height, quadMask, occlusionMask)
    ELSE quadMask

\* ctx.drawImage(off, 0, 0) then destination-in with the mask canvas: the alpha
\* left on the overlay.  The warped tile is taken to cover the pixels whose
\* centre is inside the quad, fully opaque.
OverlayAlpha(width, height, quad, mask) ==
  Seal([p \in 1..(width * height) |->
          IF insideQuad(quad, (p - 1) % width, (p - 1) \div width)
            THEN mask.data[4 * p] ELSE 0])

RenderPass(props, edge) ==
  LET featherPx == IF props.surface = "floor" THEN FLOOR_FEATHER_PX ELSE FEATHER_PX
      quadMask == createFeatheredQuadMask(props.width, props.height, props.corners, featherPx)
      source == OcclusionSource(props.depthMap # NoDepth, props.wallMask # NoImage,
                                edge # NoImage)
      occlusionMask == SmoothedOcclusion(source, props, edge)
      mask == FinalMask(props.width, props.height, quadMask, occlusionMask)
  IN  [ran |-> TRUE, source |-> source, quadMask |-> quadMask,
       occlusionMask |-> occlusionMask, mask |-> mask,
       overlay |-> OverlayAlpha(props.width, props.height, props.corners, mask)]

-----------------------------------------------------------------------------
(* The page (src/unnamed/part_008, the later version of app/page.tsx with  *)
(* the floor surface added), in the wall view.  A room photo's URL is the  *)
(* number of the upload that produced it, 0 standing for null; depthMap,  *)
(* wallMask and floorMask hold the URL their result was computed from.     *)
(* The page mounts the wall overlay while hasWallOverlay holds; overlay is *)
(* that component's own state and shown is what its render effect last    *)
(* drew with.                                                              *)

\* uploads of one session
MaxUploads == 2

Kinds == {"depth", "wall", "floor"}

NoOverlay == [mounted |-> FALSE, imageReady |-> FALSE, edgeMask |-> 0]

NotShown == [ran |-> FALSE]

\* hasWallOverlay = wallCorners.length === 4 && selectedWallTile: the overlay
\* is mounted with fresh state when it becomes true, unmounted when false
OverlayAfter(ov, corners, tile) ==
  IF corners = 4 /\ tile
    THEN IF ov.mounted THEN ov ELSE [NoOverlay EXCEPT !.mounted = TRUE]
    ELSE NoOverlay

\* the overlay's render effect with the page's depthMap and wallMask as props:
\* it draws once the tile image is ready, with the source the priority gives
ShownBy(ov, dm, wm) ==
  IF ov.mounted /\ ov.imageReady
    THEN [ran |-> TRUE,
          source |-> OcclusionSource(dm # 0, wm # 0, ov.edgeMask # 0),
          depthMap |-> dm, wallMask |-> wm, edgeMask |-> ov.edgeMask]
    ELSE NotShown

InitPage ==
  /\ roomImageUrl = 0
  /\ pending = {}
  /\ settled = [k \in Kinds |-> "none"]
  /\ depthMap = 0 /\ depthLoading = FALSE /\ depthError = FALSE
  /\ wallMask = 0 /\ wallMaskLoading = FALSE /\ wallMaskError = FALSE
  /\ floorMask = 0 /\ floorMaskLoading = FALSE /\ floorMaskError = FALSE
  /\ wallCorners = 0
  /\ selectedWallTile = FALSE
  /\ overlay = NoOverlay
  /\ shown = NotShown

\* handleImageLoad(url): the state is reset and three requests start for url;
\* requests of earlier photos stay in flight
HandleImageLoad ==
  /\ roomImageUrl < MaxUploads
  /\ roomImageUrl' = roomImageUrl + 1
  /\ wallCorners' = 0
  /\ depthMap' = 0 /\ depthError' = FALSE
  /\ wallMask' = 0 /\ wallMaskError' = FALSE
  /\ floorMask' = 0 /\ floorMaskError' = FALSE
  /\ depthLoading' = TRUE /\ wallMaskLoading' = TRUE /\ floorMaskLoading' = TRUE
  /\ pending' = pending \cup {<<k, roomImageUrl'>> : k \in Kinds}
  /\ settled' = [k \in Kinds |-> "pending"]
  /\ overlay' = OverlayAfter(overlay, wallCorners', selectedWallTile)
  /\ shown' = ShownBy(overlay', depthMap', wallMask')
  /\ UNCHANGED <<selectedWallTile, notPageVars>>

\* the promise of kind k for url settles as how; the current photo's outcome
\* is remembered
Settle(k, url, how) ==
  /\ <<k, url>> \in pending
  /\ pending' = pending \ {<<k, url>>}
  /\ settled' = IF url = roomImageUrl THEN [settled EXCEPT ![k] = how] ELSE settled

\* estimateDepth(url).then(setDepthMap) ... .finally(() => setDepthLoading(false))
DepthResolved(url) ==
  /\ Settle("depth", url, "resolved")
  /\ depthMap' = url
  /\ depthLoading' = FALSE
  /\ shown' = ShownBy(overlay, depthMap', wallMask)
  /\ UNCHANGED <<roomImageUrl, depthError, wallMask, wallMaskLoading, wallMaskError,
                 floorMask, floorMaskLoading, floorMaskError,
                 wallCorners, selectedWallTile, overlay, notPageVars>>

\* the same with .then in the place of .finally: the flag is left as it is
DepthRejectedNoFinally(url) ==
  /\ Settle("depth", url, "rejected")
  /\ depthError' = TRUE
  /\ shown' = ShownBy(overlay, depthMap, wallMask)
  /\ UNCHANGED <<roomImageUrl, depthMap, depthLoading, wallMask, wallMaskLoading, wallMaskError,
                 floorMask, floorMaskLoading, floorMaskError,
                 wallCorners, selectedWallTile, overlay, notPageVars>>

\* .catch((err) => ... setDepthError(msg)).finally(() => setDepthLoading(false))
DepthRejected(url) ==
  /\ Settle("depth", url, "rejected")
  /\ depthError' = TRUE
  /\ depthLoading' = FALSE
  /\ shown' = ShownBy(overlay, depthMap, wallMask)
  /\ UNCHANGED <<roomImageUrl, depthMap, wallMask, wallMaskLoading, wallMaskError,
                 floorMask, floorMaskLoading, floorMaskError,
                 wallCorners, selectedWallTile, overlay, notPageVars>>

\* segmentWall(url, 512, 512).then((res) => setWallMask(res.mask)) ... .finally(...)
WallResolved(url) ==
  /\ Settle("wall", url, "resolved")
  /\ wallMask' = url
  /\ wallMaskLoading' = FALSE
  /\ shown' = ShownBy(overlay, depthMap, wallMask')
  /\ UNCHANGED <<roomImageUrl, depthMap, depthLoading, depthError, wallMaskError,
                 floorMask, floorMaskLoading, floorMaskError,
                 wallCorners, selectedWallTile, overlay, notPageVars>>

WallRejected(url) ==
  /\ Settle("wall", url, "rejected")
  /\ wallMaskError' = TRUE
  /\ wallMaskLoading' = FALSE
  /\ shown' = ShownBy(overlay, depthMap, wallMask)
  /\ UNCHANGED <<roomImageUrl, depthMap, depthLoading, depthError, wallMask,
                 floorMask, floorMaskLoading, floorMaskError,
                 wallCorners, selectedWallTile, overlay, notPageVars>>

\* segmentFloor(url, 512, 512).then((res) => setFloorMask(res.mask)) ... .finally(...)
FloorResolved(url) ==
  /\ Settle("floor", url, "resolved")
  /\ floorMask' = url
  /\ floorMaskLoading' = FALSE
  /\ shown' = ShownBy(overlay, depthMap, wallMask)
  /\ UNCHANGED <<roomImageUrl, depthMap, depthLoading, depthError,
                 wallMask, wallMaskLoading, wallMaskError, floorMaskError,
                 wallCorners, selectedWallTile, overlay, notPageVars>>

FloorRejected(url) ==
  /\ Settle("floor", url, "rejected")
  /\ floorMaskError' = TRUE
  /\ floorMaskLoading' = FALSE
  /\ shown' = ShownBy(overlay, depthMap, wallMask)
  /\ UNCHANGED <<roomImageUrl, depthMap, depthLoading, depthError,
                 wallMask, wallMaskLoading, wallMaskError, floorMask,
                 wallCorners, selectedWallTile, overlay, notPageVars>>

requestVars ==
  <<roomImageUrl, pending, settled, depthMap, depthLoading, depthError,
    wallMask, wallMaskLoading, wallMaskError,
    floorMask, floorMaskLoading, floorMaskError>>

\* handleCanvasClick in the wall view: one more corner, up to four
HandleCanvasClick ==
  /\ roomImageUrl # 0
  /\ wallCorners < 4
  /\ wallCorners' = wallCorners + 1
  /\ overlay' = OverlayAfter(overlay, wallCorners', selectedWallTile)
  /\ shown' = ShownBy(overlay', depthMap, wallMask)
  /\ UNCHANGED <<requestVars, selectedWallTile, notPageVars>>

\* handleResetCorners in the wall view
HandleResetCorners ==
  /\ wallCorners > 0
  /\ wallCorners' = 0
  /\ overlay' = OverlayAfter(overlay, wallCorners', selectedWallTile)
  /\ shown' = ShownBy(overlay', depthMap, wallMask)
  /\ UNCHANGED <<requestVars, selectedWallTile, notPageVars>>

\* the tile picker's onSelect: setSelectedWallTile(tile)
SelectWallTile ==
  /\ ~selectedWallTile
  /\ selectedWallTile' = TRUE
  /\ overlay' = OverlayAfter(overlay, wallCorners, selectedWallTile')
  /\ shown' = ShownBy(overlay', depthMap, wallMask)
  /\ UNCHANGED <<requestVars, wallCorners, notPageVars>>

\* the mounted overlay's tile image loads: setImageReady(true), then it draws
OverlayTileOnload ==
  /\ overlay.mounted /\ ~overlay.imageReady
  /\ overlay' = [overlay EXCEPT !.imageReady = TRUE]
  /\ shown' = ShownBy(overlay', depthMap, wallMask)
  /\ UNCHANGED <<requestVars, wallCorners, selectedWallTile, notPageVars>>

\* the mounted overlay's room image loads: setEdgeMask(...), then it draws again
OverlayRoomOnload ==
  /\ overlay.mounted /\ overlay.edgeMask = 0
  /\ overlay' = [overlay EXCEPT !.edgeMask = roomImageUrl]
  /\ shown' = ShownBy(overlay', depthMap, wallMask)
  /\ UNCHANGED <<requestVars, wallCorners, selectedWallTile, notPageVars>>

-----------------------------------------------------------------------------
(* components/TileOverlayCanvas.tsx as app/page.tsx mounts it: always      *)
(* mounted, width and height following the container's size.  URLs are     *)
(* strings, "null" standing for null; an Image object is known by the URL  *)
(* it loads, a room Image also by the width and height its onload closed   *)
(* over.  A commit runs the effects whose dependencies changed, in order,  *)
(* with the state of that render; a state update made by an effect gives   *)
(* one more render, and the render effect may run in both.                 *)

TileUrls == {"tileA", "tileB"}
RoomUrls == {"room1", "room2"}

\* the container's sizes: before layout, and two layouts
Sizes ==
  {[width |-> 0, height |-> 0], [width |-> 4, height |-> 3], [width |-> 6, height |-> 4]}

NoEdgeMask == [url |-> "null", width |-> 0, height |-> 0]

NoEffectPass == [ran |-> FALSE]

\* the render effect with the overlayProps p and state of one render and the refs as
\* they are when it runs: what it read and the sizes of the masks it made
EffectPass(p, img, ready, roomImg, edge) ==
  IF /\ p.corners = 4 /\ p.tileImageUrl # "null" /\ p.width # 0 /\ p.height # 0
     /\ img # "null" /\ ready
    THEN LET source == OcclusionSource(p.depthMap # "null", p.wallMask # "null",
                                       edge # NoEdgeMask)
         IN  [ran |-> TRUE, width |-> p.width, height |-> p.height,
              tile |-> img, room |-> roomImg, source |-> source,
              edgeMask |-> IF source = "edge" THEN edge ELSE NoEdgeMask,
              quadMask |-> [width |-> p.width, height |-> p.height],
              occlusionMask |->
                IF source = "edge" THEN [width |-> edge.width, height |-> edge.height]
                ELSE IF source = "none" THEN [width |-> 0, height |-> 0]
                ELSE [width |-> p.width, height |-> p.height],
              mask |-> [width |-> p.width, height |-> p.height]]
    ELSE NoEffectPass

InitOverlay ==
  /\ overlayProps = [corners |-> 0, tileImageUrl |-> "null", width |-> 0, height |-> 0,
              depthMap |-> "null", wallMask |-> "null", roomImageUrl |-> "null"]
  /\ imageRef = "null" /\ imageReady = FALSE
  /\ roomImageRef = "null" /\ roomImageReady = FALSE
  /\ edgeMask = NoEdgeMask
  /\ tileImages = {} /\ roomImages = {}
  /\ passes = <<NoEffectPass, NoEffectPass>>

\* the parent renders the component with the overlayProps np
Commit(np) ==
  LET tileChanged == np.tileImageUrl # overlayProps.tileImageUrl
      roomChanged == \/ np.roomImageUrl # overlayProps.roomImageUrl
                     \/ np.width # overlayProps.width \/ np.height # overlayProps.height
      \* the render effect's dependencies among the props (tileSizeMm comes
      \* with the tile; roomImageUrl is not one of them)
      drawChanged == \/ np.corners # overlayProps.corners \/ tileChanged
                     \/ np.width # overlayProps.width \/ np.height # overlayProps.height
                     \/ np.depthMap # overlayProps.depthMap
                     \/ np.wallMask # overlayProps.wallMask
      imageRef1 == IF tileChanged THEN "null" ELSE imageRef
      roomImageRef1 == IF roomChanged THEN "null" ELSE roomImageRef
      imageReady2 == IF tileChanged THEN FALSE ELSE imageReady
      roomImageReady2 == IF roomChanged THEN FALSE ELSE roomImageReady
      edgeMask2 == IF roomChanged THEN NoEdgeMask ELSE edgeMask
      again == \/ imageReady2 # imageReady \/ roomImageReady2 # roomImageReady
               \/ edgeMask2 # edgeMask
  IN  /\ np # overlayProps
      /\ UNCHANGED notOverlayVars
      /\ overlayProps' = np
      /\ imageRef' = imageRef1
      /\ roomImageRef' = roomImageRef1
      /\ tileImages' = IF tileChanged /\ np.tileImageUrl # "null"
                         THEN tileImages \cup {np.tileImageUrl} ELSE tileImages
      /\ roomImages' = IF /\ roomChanged /\ np.roomImageUrl # "null"
                          /\ np.width # 0 /\ np.height # 0
                         THEN roomImages \cup {[url |-> np.roomImageUrl,
                                                width |-> np.width, height |-> np.height]}
                         ELSE roomImages
      /\ imageReady' = imageReady2
      /\ roomImageReady' = roomImageReady2
      /\ edgeMask' = edgeMask2
      /\ passes' = <<IF drawChanged
                       THEN EffectPass(np, imageRef1, imageReady, roomImageRef1, edgeMask)
                       ELSE NoEffectPass,
                     IF again
                       THEN EffectPass(np, imageRef1, imageReady2, roomImageRef1, edgeMask2)
                       ELSE NoEffectPass>>

\* page.tsx handleImageLoad: a new room photo, corners and results reset
ParentImageLoad(url) ==
  /\ url # overlayProps.roomImageUrl
  /\ Commit([overlayProps EXCEPT !.roomImageUrl = url, !.corners = 0,
                          !.depthMap = "null", !.wallMask = "null"])

\* page.tsx handleCanvasClick: one more corner
ParentCanvasClick ==
  /\ overlayProps.roomImageUrl # "null"
  /\ overlayProps.corners < 4
  /\ Commit([overlayProps EXCEPT !.corners = overlayProps.corners + 1])

\* page.tsx: setDepthMap with the result of a request
ParentDepthMap ==
  /\ overlayProps.roomImageUrl # "null"
  /\ overlayProps.depthMap = "null"
  /\ Commit([overlayProps EXCEPT !.depthMap = overlayProps.roomImageUrl])

\* page.tsx: setWallMask with the result of a request
ParentWallMask ==
  /\ overlayProps.roomImageUrl # "null"
  /\ overlayProps.wallMask = "null"
  /\ Commit([overlayProps EXCEPT !.wallMask = overlayProps.roomImageUrl])

\* the tile picker: another tile is selected
ParentSelectTile(url) ==
  /\ url # overlayProps.tileImageUrl
  /\ Commit([overlayProps EXCEPT !.tileImageUrl = url])

\* page.tsx ResizeObserver: setContainerSize
ParentResize(size) ==
  /\ size.width # 0
  /\ Commit([overlayProps EXCEPT !.width = size.width, !.height = size.height])

\* img.onload of a tile Image: imageRef.current = img; setImageReady(true).
\* The state changes only if imageReady was false; then the component renders
\* again and the render effect runs
TileImgOnload(url) ==
  /\ url \in tileImages
  /\ tileImages' = tileImages \ {url}
  /\ imageRef' = url
  /\ imageReady' = TRUE
  /\ passes' = IF imageReady THEN passes
               ELSE <<EffectPass(overlayProps, url, TRUE, roomImageRef, edgeMask), NoEffectPass>>
  /\ UNCHANGED <<overlayProps, roomImageRef, roomImageReady, edgeMask, roomImages,
                 notOverlayVars>>

\* roomImg.onload: roomImageRef.current = roomImg; setRoomImageReady(true);
\* setEdgeMask(mask of the closure's width x height); then the render effect
RoomImgOnload ==
  \E img \in roomImages :
    /\ roomImages' = roomImages \ {img}
    /\ roomImageRef' = img.url
    /\ roomImageReady' = TRUE
    /\ edgeMask' = img
    /\ passes' = <<EffectPass(overlayProps, imageRef, imageReady, img.url, img),
                   NoEffectPass>>
    /\ UNCHANGED <<overlayProps, imageRef, imageReady, tileImages, notOverlayVars>>

OverlayIdle == InitOverlay

NextOverlay ==
  \/ \E url \in RoomUrls : ParentImageLoad(url)
  \/ ParentCanvasClick
  \/ ParentDepthMap
  \/ ParentWallMask
  \/ \E url \in TileUrls : ParentSelectTile(url)
  \/ \E size \in Sizes : ParentResize(size)
  \/ \E url \in TileUrls : TileImgOnload(url)
  \/ RoomImgOnload

-----------------------------------------------------------------------------
(* The warp engine (lib/tiledWall.ts, homography version).  A number is an  *)
(* exact fraction <<n, d>> with d > 0 in lowest terms; every denominator is *)
(* below 2^31, so a test against 1e-10 or 1e-12 is a test for zero.         *)

RECURSIVE GCD(_, _)
GCD(a, b) == IF b = 0 THEN a ELSE GCD(b, a % b)

Frac(n, d) ==
  LET g == GCD(Abs(n), Abs(d))
  IN  IF d < 0 THEN <<(0 - n) \div g, (0 - d) \div g>> ELSE <<n \div g, d \div g>>

Num(n) == <<n, 1>>
FNeg(a) == <<0 - a[1], a[2]>>
\* sums and products cancel common factors before they multiply
FAdd(a, b) ==
  LET g == GCD(a[2], b[2])
  IN  Frac(a[1] * (b[2] \div g) + b[1] * (a[2] \div g), (a[2] \div g) * b[2])
FSub(a, b) == FAdd(a, FNeg(b))
FMul(a, b) ==
  LET g1 == GCD(Abs(a[1]), b[2])
      g2 == GCD(Abs(b[1]), a[2])
  IN  <<(a[1] \div g1) * (b[1] \div g2), (a[2] \div g2) * (b[2] \div g1)>>
FDiv(a, b) == FMul(a, Frac(b[2], b[1]))
FAbs(a) == <<Abs(a[1]), a[2]>>
FLess(a, b) == FSub(a, b)[1] < 0
\* Math.floor
FFloor(a) == a[1] \div a[2]

\* Math.abs(v) < 1e-12, and < 1e-10
Below1e12(v) == v[1] = 0
Below1e10(v) == v[1] = 0
\* Math.abs(v) < 1e-9
Below1e9(v) == Abs(v[1]) <= 2 /\ Abs(v[1]) * 1000000000 < v[2]

HOMOGRAPHY_SUBDIV == 32

\* the rows of the augmented 8 x 9 matrix M, two per corner
HomographyRows(destQuad, srcW, srcH) ==
  LET src == <<<<Num(0), Num(0)>>, <<srcW, Num(0)>>, <<srcW, srcH>>, <<Num(0), srcH>>>>
      rowOf(r) ==
        LET i == (r + 1) \div 2
            s == src[i][1]
            t == src[i][2]
            x == destQuad[i].x
            y == destQuad[i].y
        IN  IF r % 2 = 1
            THEN <<FNeg(s), FNeg(t), Num(-1), Num(0), Num(0), Num(0),
                   FMul(x, s), FMul(x, t), FNeg(x)>>
            ELSE <<Num(0), Num(0), Num(0), FNeg(s), FNeg(t), Num(-1),
                   FMul(y, s), FMul(y, t), FNeg(y)>>
  IN  [r \in 1..8 |-> rowOf(r)] \o <<>>

\* the row the pivot search of column col ends on: the first row from col
\* down whose entry in that column is largest in magnitude
PivotRow(M, col) ==
  CHOOSE r \in col..8 :
    /\ \A q \in col..8 : ~FLess(FAbs(M[r][col]), FAbs(M[q][col]))
    /\ \A q \in col..(r - 1) : FLess(FAbs(M[q][col]), FAbs(M[r][col]))

\* one pass of the column loop: swap the pivot row in, skip a column whose
\* pivot is below 1e-12, else normalise the row and clear the column
EliminateColumn(M, col) ==
  LET pivot == PivotRow(M, col)
      swapped == [r \in 1..8 |->
                    IF r = col THEN M[pivot] ELSE IF r = pivot THEN M[col] ELSE M[r]]
      div == swapped[col][col]
      pivotRow == [c \in 1..9 |-> FDiv(swapped[col][c], div)] \o <<>>
      cleared(r) ==
        LET f == swapped[r][col]
        IN  [c \in 1..9 |-> FSub(swapped[r][c], FMul(f, pivotRow[c]))] \o <<>>
  IN  IF Below1e12(div) THEN swapped \o <<>>
      ELSE [r \in 1..8 |-> IF r = col THEN pivotRow ELSE cleared(r)] \o <<>>

RECURSIVE GaussJordan(_, _)
GaussJordan(M, col) ==
  IF col > 8 THEN M ELSE GaussJordan(EliminateColumn(M, col), col + 1)

\* no row exchange at all: the pivot of column col is row col
homographyFromQuadNoPivot(destQuad, srcW, srcH) ==
  LET step(M, col) ==
        LET div == M[col][col]
            pivotRow == [c \in 1..9 |-> FDiv(M[col][c], div)] \o <<>>
            cleared(r) ==
              LET f == M[r][col]
              IN  [c \in 1..9 |-> FSub(M[r][c], FMul(f, pivotRow[c]))] \o <<>>
        IN  IF Below1e12(div) THEN M
            ELSE [r \in 1..8 |-> IF r = col THEN pivotRow ELSE cleared(r)] \o <<>>
      M0 == HomographyRows(destQuad, srcW, srcH)
      M8 == step(step(step(step(step(step(step(step(M0, 1), 2), 3), 4), 5), 6), 7), 8)
  IN  [i \in 1..9 |-> IF i = 9 THEN Num(1) ELSE M8[i][9]] \o <<>>

\* H as the row-major sequence H[1..9], the code's H[0..8]
homographyFromQuad(destQuad, srcW, srcH) ==
  LET M == GaussJordan(HomographyRows(destQuad, srcW, srcH), 1)
  IN  [i \in 1..9 |-> IF i = 9 THEN Num(1) ELSE M[i][9]] \o <<>>

homographyMap(H, s, t) ==
  LET w == FAdd(FAdd(FMul(H[7], s), FMul(H[8], t)), H[9])
  IN  IF Below1e9(w) THEN [x |-> Num(0), y |-> Num(0)]
      ELSE [x |-> FDiv(FAdd(FAdd(FMul(H[1], s), FMul(H[2], t)), H[3]), w),
            y |-> FDiv(FAdd(FAdd(FMul(H[4], s), FMul(H[5], t)), H[6]), w)]

\* (b - a) x (c - a)
FCross(a, b, c) ==
  FSub(FMul(FSub(b.x, a.x), FSub(c.y, a.y)), FMul(FSub(b.y, a.y), FSub(c.x, a.x)))

\* an integer vector along b - a, in lowest terms
Direction(a, b) ==
  LET dx == FSub(b.x, a.x)
      dy == FSub(b.y, a.y)
      g == GCD(dx[2], dy[2])
      ix == dx[1] * (dy[2] \div g)
      iy == dy[1] * (dx[2] \div g)
      h == GCD(Abs(ix), Abs(iy))
  IN  IF h = 0 THEN <<0, 0>> ELSE <<ix \div h, iy \div h>>

\* the sign of (b - a) x (c - a)
Orientation(a, b, c) ==
  LET u == Direction(a, b)
      v == Direction(a, c)
      z == u[1] * v[2] - u[2] * v[1]
  IN  IF z > 0 THEN 1 ELSE IF z < 0 THEN -1 ELSE 0

FMin3(a, b, c) ==
  LET m == IF FLess(b, a) THEN b ELSE a IN IF FLess(c, m) THEN c ELSE m
FMax3(a, b, c) ==
  LET m == IF FLess(a, b) THEN b ELSE a IN IF FLess(m, c) THEN c ELSE m

\* the pixels of a width x height context whose centre lies strictly inside
\* the clip path d0 d1 d2
ClipPixels(d0, d1, d2, width, height) ==
  LET half == <<1, 2>>
      x0 == MathMax(0, FFloor(FSub(FMin3(d0.x, d1.x, d2.x), half)))
      x1 == MathMin(width - 1, FFloor(FMax3(d0.x, d1.x, d2.x)))
      y0 == MathMax(0, FFloor(FSub(FMin3(d0.y, d1.y, d2.y), half)))
      y1 == MathMin(height - 1, FFloor(FMax3(d0.y, d1.y, d2.y)))
      inside(px, py) ==
        LET c == [x |-> <<2 * px + 1, 2>>, y |-> <<2 * py + 1, 2>>]
            s0 == Orientation(d0, d1, c)
            s1 == Orientation(d1, d2, c)
            s2 == Orientation(d2, d0, c)
        IN  s0 # 0 /\ s0 = s1 /\ s1 = s2
  IN  IF Orientation(d0, d1, d2) = 0 THEN {}
      ELSE {p \in (x0..x1) \X (y0..y1) : inside(p[1], p[2])}

\* what one drawTriangleWarp hands to drawImage: the clip path d0 d1 d2, onto
\* which the affine transform takes the source triangle; a source triangle
\* without area returns before drawImage
drawTriangleWarp(d0, d1, d2, s0, s1, s2) ==
  IF Below1e10(FCross(s0, s1, s2)) THEN {} ELSE {<<d0, d1, d2>>}

\* the clip paths of the drawImage calls of one drawQuadWarp
drawQuadWarp(destQuad, sourceWidth, sourceHeight) ==
  LET H == homographyFromQuad(destQuad, sourceWidth, sourceHeight)
      n == HOMOGRAPHY_SUBDIV
      \* (ix / n) * sourceWidth and (iy / n) * sourceHeight for the n + 1 grid lines
      sLines == [k \in 1..(n + 1) |-> FMul(Frac(k - 1, n), sourceWidth)] \o <<>>
      tLines == [k \in 1..(n + 1) |-> FMul(Frac(k - 1, n), sourceHeight)] \o <<>>
      sAt(ix) == sLines[ix + 1]
      tAt(iy) == tLines[iy + 1]
      src(ix, iy) == [x |-> sAt(ix), y |-> tAt(iy)]
      mapped == [k \in 1..((n + 1) * (n + 1)) |->
                   homographyMap(H, sAt((k - 1) % (n + 1)), tAt((k - 1) \div (n + 1)))] \o <<>>
      d(ix, iy) == mapped[iy * (n + 1) + ix + 1]
      cell(ix, iy) ==
        drawTriangleWarp(d(ix, iy), d(ix + 1, iy), d(ix + 1, iy + 1),
                         src(ix, iy), src(ix + 1, iy), src(ix + 1, iy + 1))
        \cup
        drawTriangleWarp(d(ix, iy), d(ix + 1, iy + 1), d(ix, iy + 1),
                         src(ix, iy), src(ix + 1, iy + 1), src(ix, iy + 1))
  IN  UNION {cell(c[1], c[2]) : c \in (0..(n - 1)) \X (0..(n - 1))}

\* where the four corners of the source rectangle go
warpedCorners(H, sourceWidth, sourceHeight) ==
  <<homographyMap(H, Num(0), Num(0)),
    homographyMap(H, sourceWidth, Num(0)),
    homographyMap(H, sourceWidth, sourceHeight),
    homographyMap(H, Num(0), sourceHeight)>>

-----------------------------------------------------------------------------
(* lib/tiledWall.ts: the tiled pattern renderer, with its grout lines *)

quadToBBox(quad) ==
  LET xs == {quad[i].x : i \in 1..4}
      ys == {quad[i].y : i \in 1..4}
      least(S) == CHOOSE v \in S : \A u \in S : ~FLess(u, v)
      most(S) == CHOOSE v \in S : \A u \in S : ~FLess(v, u)
  IN  [x |-> least(xs), y |-> least(ys),
       width |-> FSub(most(xs), least(xs)), height |-> FSub(most(ys), least(ys))]

\* canvas.width = v for a positive v: the setter keeps the whole pixels
CanvasSize(v) == FFloor(v)

\* without the test of the bounding box
TiledWallInputsOkNoBBox(bbox, tileSizeMM, wallSizeMM, imgW, imgH) ==
  /\ ~(tileSizeMM.width <= 0 \/ tileSizeMM.height <= 0 \/
       wallSizeMM.width <= 0 \/ wallSizeMM.height <= 0)
  /\ ~(imgW <= 0 \/ imgH <= 0)

\* the two early returns of renderTiledWall
TiledWallInputsOk(bbox, tileSizeMM, wallSizeMM, imgW, imgH) ==
  /\ ~(bbox.width[1] <= 0 \/ bbox.height[1] <= 0 \/
       tileSizeMM.width <= 0 \/ tileSizeMM.height <= 0 \/
       wallSizeMM.width <= 0 \/ wallSizeMM.height <= 0)
  /\ ~(imgW <= 0 \/ imgH <= 0)

NoCanvas == [present |-> FALSE, width |-> 0, height |-> 0]

NotTiled ==
  [drawn |-> FALSE, off |-> NoCanvas, tilesX |-> Num(0), tilesY |-> Num(0),
   period |-> [x |-> Num(0), y |-> Num(0)], grout |-> [x |-> {}, y |-> {}],
   lit |-> FALSE, draws |-> {}]

\* what renderTiledWall does with a tile image of imgW x imgH pixels and the
\* default grout opacity: the offscreen canvas, the tile counts, the period of
\* the pattern on the offscreen canvas, where the grout lines are stroked,
\* whether the lighting canvas was multiplied on, and the clip paths the
\* final warp drew the offscreen canvas into
renderTiledWall(wallQuad, imgW, imgH, tileSizeMM, wallSizeMM, lightingCanvas) ==
  LET bbox == quadToBBox(wallQuad)
      wallWidthPx == bbox.width
      wallHeightPx == bbox.height
      tilesX == Frac(wallSizeMM.width, tileSizeMM.width)
      tilesY == Frac(wallSizeMM.height, tileSizeMM.height)
      scaleX == FDiv(wallWidthPx, FMul(tilesX, Num(imgW)))
      scaleY == FDiv(wallHeightPx, FMul(tilesY, Num(imgH)))
      \* i * step for 1 <= i < Math.ceil(tiles)
      lines(tiles, step) ==
        {FMul(Num(i), step) : i \in 1..((0 - FFloor(FNeg(tiles))) - 1)}
  IN  IF ~TiledWallInputsOk(bbox, tileSizeMM, wallSizeMM, imgW, imgH) THEN NotTiled
      ELSE [drawn |-> TRUE,
            off |-> [present |-> TRUE, width |-> CanvasSize(wallWidthPx),
                     height |-> CanvasSize(wallHeightPx)],
            tilesX |-> tilesX, tilesY |-> tilesY,
            period |-> [x |-> FMul(Num(imgW), scaleX), y |-> FMul(Num(imgH), scaleY)],
            grout |-> [x |-> lines(tilesX, FDiv(wallWidthPx, tilesX)),
                       y |-> lines(tilesY, FDiv(wallHeightPx, tilesY))],
            lit |-> /\ lightingCanvas.present
                    /\ Num(lightingCanvas.width) = wallWidthPx
                    /\ Num(lightingCanvas.height) = wallHeightPx,
            draws |-> drawQuadWarp(wallQuad, wallWidthPx, wallHeightPx)]

-----------------------------------------------------------------------------
(* lib/lightingMap.ts.  Luminance is kept in thousandths of a grey level,   *)
(* the Float32Array stores rounded to that unit.                            *)

DEFAULT_BLUR_RADIUS_PX == 40
WALL_THRESHOLD == 128
LIGHTING_FLOOR == 150

\* exp(-x * x / (2 * sigma * sigma)) in hundredths for x = 0..20 and
\* sigma = 20 / 2.5, the kernel of the default blur radius
GaussianHundredths == <<100, 99, 97, 93, 88, 82, 75, 68, 61, 53, 46, 39, 32, 27, 22, 17, 14, 10, 8, 6, 4>>

\* the weights before the division by their sum
gaussianKernel(radius) ==
  [k \in 1..(2 * radius + 1) |-> GaussianHundredths[Abs(k - 1 - radius) + 1]] \o <<>>

\* data is indexed from 1: the code's data[y * width + x] is data[y * width + x + 1]
blurChannel(data, width, height, radius) ==
  LET kSize == 2 * radius + 1
      \* one pass of the kernel over src, along the rows or along the columns
      Pass(src, kernel, total, alongRows) ==
        [i \in 1..(width * height) |->
           LET x == (i - 1) % width
               y == (i - 1) \div width
               sample(k) ==
                 IF alongRows
                   THEN src[y * width + Clamp(0, width - 1, x + (k - 1) - radius) + 1]
                   ELSE src[Clamp(0, height - 1, y + (k - 1) - radius) * width + x + 1]
           IN  Once([k \in 1..kSize |-> sample(k) * kernel[k]] \o <<>>,
                    LAMBDA terms : RoundDiv(SumRange(terms, 1, kSize), total))] \o <<>>
  IN  Once(gaussianKernel(radius), LAMBDA kernel :
        Once(SumRange(kernel, 1, kSize), LAMBDA total :
          Once(Pass(data, kernel, total, TRUE), LAMBDA tmp :
            Pass(tmp, kernel, total, FALSE))))

\* without the offset: Math.round(255 * n)
lightingValueNoFloor(g, minV, range) ==
  Clamp(0, 255, RoundDiv(255 * (g - minV), range))

\* Math.max(0, Math.min(255, Math.round(LIGHTING_FLOOR + scale * 255 * n)))
\* for n = (g - minV) / range and scale = (255 - LIGHTING_FLOOR) / 255
lightingValue(g, minV, range) ==
  Clamp(0, 255, RoundDiv(LIGHTING_FLOOR * range + (255 - LIGHTING_FLOOR) * (g - minV), range))

\* the lighting canvas as an ImageData, NoImage for null; room is the room
\* image drawn at fullWidth x fullHeight
extractLightingMap(room, quad, fullWidth, fullHeight, wallMaskData) ==
  LET bbox == quadToBBox(quad)
      w == MathMax(1, FFloor(bbox.width))
      h == MathMax(1, FFloor(bbox.height))
      bx == MathMax(0, MathMin(fullWidth - 1, FFloor(bbox.x)))
      by == MathMax(0, MathMin(fullHeight - 1, FFloor(bbox.y)))
      cropW == MathMin(w, fullWidth - bx)
      cropH == MathMin(h, fullHeight - by)
      cropped == 1..(cropW * cropH)
      full(i) == (((by + ((i - 1) \div cropW)) * fullWidth) + bx + ((i - 1) % cropW)) * 4
      \* wallValues sorted, at index floor(length * 0.5)
      medianOf(g, wall) ==
        LET k == Cardinality(wall) \div 2
        IN  g[CHOOSE i \in wall :
                /\ Cardinality({j \in wall : g[j] < g[i]}) <= k
                /\ k < Cardinality({j \in wall : g[j] <= g[i]})]
      radius == MathMax(1, MathMin(50, DEFAULT_BLUR_RADIUS_PX \div 2))
      \* the RGBA bytes of the canvas, from the blurred grey
      canvasOf(blurred, minV, maxV) ==
        LET range == IF maxV - minV = 0 THEN 1000 ELSE maxV - minV
            outValue(p) ==
              LET px == (p - 1) % w
                  py == (p - 1) \div w
                  srcIdx == IF py < cropH /\ px < cropW THEN py * cropW + px ELSE 0
              IN  lightingValue(blurred[srcIdx + 1], minV, range)
        IN  Once([p \in 1..(w * h) |-> outValue(p)] \o <<>>, LAMBDA out :
              [width |-> w, height |-> h,
               data |-> [i \in 1..(4 * w * h) |->
                           IF i % 4 = 0 THEN 255 ELSE out[(i + 3) \div 4]] \o <<>>])
      \* from the foreground replaced by the median to the canvas
      lit(maskAlpha, g, wall) ==
        Once(medianOf(g, wall), LAMBDA median :
          Once([i \in cropped |->
                  IF maskAlpha[i] # Undefined /\ maskAlpha[i] < WALL_THRESHOLD
                    THEN median ELSE g[i]] \o <<>>, LAMBDA gray :
            Once(blurChannel(gray, cropW, cropH, radius), LAMBDA blurred :
              Once({blurred[i] : i \in cropped}, LAMBDA values :
                canvasOf(blurred,
                         CHOOSE v \in values : \A u \in values : v <= u,
                         CHOOSE v \in values : \A u \in values : v >= u)))))
  IN  IF cropW <= 0 \/ cropH <= 0 THEN NoImage
      ELSE
        Once([i \in cropped |-> At(wallMaskData.data, full(i) + 3)] \o <<>>, LAMBDA maskAlpha :
          Once([i \in cropped |->
                  299 * room.data[full(i) + 1] + 587 * room.data[full(i) + 2]
                  + 114 * room.data[full(i) + 3]] \o <<>>, LAMBDA g :
            Once({i \in cropped : maskAlpha[i] # Undefined /\ maskAlpha[i] >= WALL_THRESHOLD},
                 LAMBDA wall :
                   IF wall = {} THEN NoImage ELSE lit(maskAlpha, g, wall))))

-----------------------------------------------------------------------------
(* components/TileOverlayCanvas.tsx: the lighting step of the render effect *)

DEFAULT_WALL_WIDTH_MM == 3000
DEFAULT_WALL_HEIGHT_MM == 2400
DEFAULT_TILE_SIZE_MM == [width |-> 300, height |-> 300]

\* what extractLightingMap returns to the render effect, NoImage when it is
\* not called
LightingMapOf(roomLoaded, room, quad, width, height, occlusionMask) ==
  IF roomLoaded /\ occlusionMask # NoImage
    THEN extractLightingMap(room, quad, width, height, occlusionMask)
    ELSE NoImage

\* the map is made whether or not there is an occlusion mask, from a mask
\* that is wall everywhere
OverlayLightingCanvasUngated(roomLoaded, room, quad, width, height, occlusionMask) ==
  extractLightingMap(room, quad, width, height,
                     MaskFrom(width, height, 255, [p \in 1..(width * height) |-> 255]))

\* lightingCanvas as the render effect hands it to renderTiledWall
OverlayLightingCanvas(roomLoaded, room, quad, width, height, occlusionMask) ==
  LET lightingCanvas == LightingMapOf(roomLoaded, room, quad, width, height, occlusionMask)
      bbox == quadToBBox(quad)
      wallW == IF FLess(bbox.width, Num(1)) THEN Num(1) ELSE bbox.width
      wallH == IF FLess(bbox.height, Num(1)) THEN Num(1) ELSE bbox.height
  IN  IF /\ lightingCanvas # NoImage
         /\ (Num(lightingCanvas.width) # wallW \/ Num(lightingCanvas.height) # wallH)
        THEN NoImage ELSE lightingCanvas

\* an ImageData, or NoImage, as the canvas option of renderTiledWall
CanvasOf(img) == [present |-> img # NoImage, width |-> img.width, height |-> img.height]

-----------------------------------------------------------------------------
(* lib/catalog (src/unnamed/part_004).  A string is the sequence of its    *)
(* characters.                                                             *)

UpperCase == <<"A", "B", "C", "E", "G", "I", "J", "L", "N", "O", "P", "T", "X">>
LowerCase == <<"a", "b", "c", "e", "g", "i", "j", "l", "n", "o", "p", "t", "x">>
Digits == {"0", "1", "2", "3", "4", "5", "6", "7", "8", "9"}

\* String.prototype.toLowerCase and toUpperCase on one character
toLowerCase(c) ==
  IF \E k \in 1..Len(UpperCase) : UpperCase[k] = c
    THEN LowerCase[CHOOSE k \in 1..Len(UpperCase) : UpperCase[k] = c] ELSE c
toUpperCase(c) ==
  IF \E k \in 1..Len(LowerCase) : LowerCase[k] = c
    THEN UpperCase[CHOOSE k \in 1..Len(LowerCase) : LowerCase[k] = c] ELSE c

\* the character classes of the regular expressions: \s, [a-z0-9-] and \w
IsSpace(c) == c = " "
IsIdChar(c) ==
  \/ c \in Digits \/ c = "-"
  \/ \E k \in 1..Len(LowerCase) : LowerCase[k] = c
IsWordChar(c) == (IsIdChar(toLowerCase(c)) /\ c # "-") \/ c = "_"

\* s.replace(/X+/g, by) for the character class X: every run of X becomes by
ReplaceRuns(s, X(_), by) ==
  LET skip == "skip"
      marked == [i \in 1..Len(s) |->
                   IF ~X(s[i]) THEN s[i]
                   ELSE IF i > 1 /\ X(s[i - 1]) THEN skip ELSE by] \o <<>>
      kept(c) == c # skip
  IN  SelectSeq(marked, kept)

\* without the removal of the characters outside [a-z0-9-]
idOfUnfiltered(base) ==
  ReplaceRuns([i \in 1..Len(base) |-> toLowerCase(base[i])] \o <<>>, IsSpace, "-")

\* base.toLowerCase().replace(/\s+/g, "-").replace(/[^a-z0-9-]/g, "")
idOf(base) ==
  SelectSeq(ReplaceRuns([i \in 1..Len(base) |-> toLowerCase(base[i])] \o <<>>, IsSpace, "-"),
            IsIdChar)

filenameToIdAndName(filename) ==
  LET dots == {i \in 1..Len(filename) : filename[i] = "."}
      lastDot == CHOOSE i \in dots : \A j \in dots : j <= i
      \* /\.[^.]+$/ : the last dot, when characters follow it
      base == IF dots # {} /\ lastDot < Len(filename)
                THEN SubSeq(filename, 1, lastDot - 1) ELSE filename
      id == idOf(base)
      IsJoin(c) == c = "-" \/ c = "_"
      name == ReplaceRuns(base, IsJoin, " ")
      \* /\b\w/g : a word character that no word character precedes
      nameTitle == [i \in 1..Len(name) |->
                      IF IsWordChar(name[i]) /\ (i = 1 \/ ~IsWordChar(name[i - 1]))
                        THEN toUpperCase(name[i]) ELSE name[i]] \o <<>>
  IN  [id |-> IF id = <<>> THEN <<"t", "i", "l", "e">> ELSE id,
       name |-> IF nameTitle = <<>> THEN filename ELSE nameTitle]

CatalogFolders == <<"wall", "floor", "both">>
FolderChars ==
  [wall |-> <<"w", "a", "l", "l">>, floor |-> <<"f", "l", "o", "o", "r">>,
   both |-> <<"b", "o", "t", "h">>]

\* the loop of buildCatalogFromFolders from folder f, file k on, with the
\* products pushed so far; seen holds exactly their ids.  The imageUrl
\* /tiles/<folder>/<encodeURIComponent(filename)> is kept as its two parts.
RECURSIVE CatalogFrom(_, _, _, _)
CatalogFrom(res, f, k, out) ==
  IF f > Len(CatalogFolders) THEN out
  ELSE LET folder == CatalogFolders[f]
           files == res[folder]
       IN  IF k > Len(files) THEN CatalogFrom(res, f + 1, 1, out)
           ELSE LET filename == files[k]
                    made == filenameToIdAndName(filename)
                    uniqueId == FolderChars[folder] \o <<"-">> \o made.id \o <<"-">> \o filename
                IN  IF \E i \in 1..Len(out) : out[i].id = uniqueId
                      THEN CatalogFrom(res, f, k + 1, out)
                      ELSE CatalogFrom(res, f, k + 1,
                                       Append(out, [id |-> uniqueId, name |-> made.name,
                                                    imageUrl |-> <<folder, filename>>,
                                                    surface |-> folder]))

buildCatalogFromFolders(res) == CatalogFrom(res, 1, 1, <<>>)

-----------------------------------------------------------------------------
(* lib/depth (src/unnamed/part_005): getSession and estimateDepth;         *)
(* lib/wallSegmentation.ts: getModel, segmentWall and segmentFloor.        *)
(* A promise is [state, error]; a load is where its async function stands, *)
(* how often it was started, the model sources it fetched and what each    *)
(* answered.                                                               *)

NoPromise == [state |-> "null", error |-> "none"]
Pending == [state |-> "pending", error |-> "none"]
Fulfilled == [state |-> "fulfilled", error |-> "none"]
Rejected(error) == [state |-> "rejected", error |-> error]

NoLoad == [pc |-> "idle", starts |-> 0, fetched |-> <<>>, answers |-> <<>>,
           modelRes |-> "undefined"]

ModelSources == <<"local", "proxy", "CDN">>

\* a getSession that starts the load again after a rejection
getSessionRetry(promise, load) ==
  IF promise.state \in {"pending", "fulfilled"} THEN <<promise, load>>
  ELSE <<Pending, [load EXCEPT !.pc = "ort", !.starts = @ + 1]>>

\* a getSession without the test of sessionPromise
getSessionAlways(promise, load) ==
  <<Pending, [load EXCEPT !.pc = "ort", !.starts = @ + 1]>>

\* getSession: the promise it returns and the load, which it starts when
\* sessionPromise is null; the async function runs up to await loadOrt()
getSession(promise, load) ==
  IF promise # NoPromise THEN <<promise, load>>
  ELSE <<Pending, [load EXCEPT !.pc = "ort", !.starts = @ + 1]>>

\* the fetch loop without its break
modelFetchAnsweredNoBreak(load, answer) ==
  LET modelRes == IF answer = "throws" THEN load.modelRes ELSE answer
      answered == [load EXCEPT !.answers = Append(@, answer), !.modelRes = modelRes]
      n == Len(answered.answers)
  IN  IF n < Len(ModelSources)
        THEN <<Pending, [answered EXCEPT !.fetched = Append(@, ModelSources[n + 1])]>>
      ELSE IF modelRes # "ok"
        THEN <<Rejected("Model fetch failed"), [answered EXCEPT !.pc = "done"]>>
      ELSE <<Pending, [answered EXCEPT !.pc = "create"]>>

\* one turn of the loop over local, proxy and CDN, from the answer of the
\* fetch in flight: ok, notOk (a response that is not ok) or throws.  A
\* response is assigned to modelRes, a throw leaves modelRes as it was; ok
\* breaks; after the loop !modelRes?.ok throws "Model fetch failed".
modelFetchAnswered(load, answer) ==
  LET modelRes == IF answer = "throws" THEN load.modelRes ELSE answer
      answered == [load EXCEPT !.answers = Append(@, answer), !.modelRes = modelRes]
      n == Len(answered.answers)
  IN  IF answer # "ok" /\ n < Len(ModelSources)
        THEN <<Pending, [answered EXCEPT !.fetched = Append(@, ModelSources[n + 1])]>>
      ELSE IF modelRes # "ok"
        THEN <<Rejected("Model fetch failed"), [answered EXCEPT !.pc = "done"]>>
      ELSE <<Pending, [answered EXCEPT !.pc = "create"]>>

\* cachedModel, with the number of loadDeepLab calls
NoModel == [promise |-> NoPromise, starts |-> 0]

\* a getModel without the test of cachedModel
getModelAlways(cached) == [promise |-> Pending, starts |-> cached.starts + 1]

\* getModel: if (!cachedModel) cachedModel = loadDeepLab()
getModel(cached) ==
  IF cached.promise # NoPromise THEN cached
  ELSE [promise |-> Pending, starts |-> cached.starts + 1]

-----------------------------------------------------------------------------
(* lib/occlusionMask.ts: fillWallFromBorder.  Arrays are functions on      *)
(* 0..n-1; a fill is [pc, wall, queue, pushed], pushed being every index   *)
(* that queue.push was called with.                                        *)

\* push(idx): if (edgeBarrier[idx] || wall[idx]) return; wall[idx] = 255; queue.push(idx)
push(f, edgeBarrier, idx) ==
  IF edgeBarrier[idx] # 0 \/ f.wall[idx] # 0 THEN f
  ELSE [f EXCEPT !.wall[idx] = 255, !.queue = Append(@, idx), !.pushed = Append(@, idx)]

RECURSIVE pushEach(_, _, _)
pushEach(f, edgeBarrier, idxs) ==
  IF idxs = <<>> THEN f
  ELSE pushEach(push(f, edgeBarrier, Head(idxs)), edgeBarrier, Tail(idxs))

\* the two border loops: top and bottom of each column, then left and right of each row
borderIndices(width, height) ==
  [k \in 1..(2 * width) |->
     IF k % 2 = 1 THEN (k - 1) \div 2 ELSE ((height - 1) * width) + ((k - 2) \div 2)]
  \o [k \in 1..(2 * height) |->
     IF k % 2 = 1 THEN ((k - 1) \div 2) * width ELSE (((k - 2) \div 2) * width) + (width - 1)]

\* the neighbours with the upper left diagonal one as well
fillNeighboursDiagonal(width, height, idx) ==
  LET x == idx % width
      y == idx \div width
  IN  (IF x > 0 THEN <<idx - 1>> ELSE <<>>)
      \o (IF x < width - 1 THEN <<idx + 1>> ELSE <<>>)
      \o (IF y > 0 THEN <<idx - width>> ELSE <<>>)
      \o (IF y < height - 1 THEN <<idx + width>> ELSE <<>>)
      \o (IF x > 0 /\ y > 0 THEN <<idx - width - 1>> ELSE <<>>)

\* the neighbours pushed for a dequeued index: left, right, up, down
fillNeighbours(width, height, idx) ==
  LET x == idx % width
      y == idx \div width
  IN  (IF x > 0 THEN <<idx - 1>> ELSE <<>>)
      \o (IF x < width - 1 THEN <<idx + 1>> ELSE <<>>)
      \o (IF y > 0 THEN <<idx - width>> ELSE <<>>)
      \o (IF y < height - 1 THEN <<idx + width>> ELSE <<>>)

-----------------------------------------------------------------------------
(* VisualizerPage with wall and floor (src/unnamed/part_008): the state    *)
(* the corner and tile handlers work on.  A state setter called with a     *)
(* function gets the present state; what a handler reads from its closure  *)
(* is the state of the last render.                                        *)

\* what the handlers of a render close over: viewMode and corners.length
closureOf(v) ==
  [viewMode |-> v.viewMode,
   length |-> IF v.viewMode = "wall" THEN Len(v.wallCorners) ELSE Len(v.floorCorners)]

\* handleImageLoad, on this state
imageLoaded(v, url) ==
  [v EXCEPT !.roomImageUrl = url, !.wallCorners = <<>>, !.floorCorners = <<>>]

\* handleCanvasClick: the test is on the closure's corners.length, the
\* updater appends to the present list
handleCanvasClick(v, closure, point) ==
  IF closure.length >= 4 THEN v
  ELSE IF closure.viewMode = "wall" THEN [v EXCEPT !.wallCorners = Append(@, point)]
  ELSE [v EXCEPT !.floorCorners = Append(@, point)]

\* next[index] = {x, y} when index is within next
movedCorner(prev, index, point) ==
  IF index >= 0 /\ index < Len(prev) THEN [prev EXCEPT ![index + 1] = point] ELSE prev

handleCornerMove(v, closure, index, point) ==
  IF closure.viewMode = "wall"
    THEN [v EXCEPT !.wallCorners = movedCorner(@, index, point)]
    ELSE [v EXCEPT !.floorCorners = movedCorner(@, index, point)]

\* a reset that clears the corners of both surfaces
handleResetCornersBoth(v, closure) ==
  [v EXCEPT !.wallCorners = <<>>, !.floorCorners = <<>>]

handleResetCorners(v, closure) ==
  IF closure.viewMode = "wall" THEN [v EXCEPT !.wallCorners = <<>>]
  ELSE [v EXCEPT !.floorCorners = <<>>]

\* setSelectedTile = viewMode === "wall" ? setSelectedWallTile : setSelectedFloorTile
setSelectedTile(v, closure, tile) ==
  IF closure.viewMode = "wall" THEN [v EXCEPT !.selectedWallTile = tile]
  ELSE [v EXCEPT !.selectedFloorTile = tile]

-----------------------------------------------------------------------------
(* The state of a CanvasRenderingContext2D as the drawing code uses it:    *)
(* the stack of saved states, and the clip (the paths clipped to), the     *)
(* transform, globalCompositeOperation and globalAlpha (in thousandths)    *)
(* that save() pushes and restore() pops; draws counts the drawImage,      *)
(* fill and stroke calls and lastDraw is the state the last one was made   *)
(* in.                                                                     *)

DrawingState(c) ==
  [clip |-> c.clip, transform |-> c.transform,
   globalCompositeOperation |-> c.globalCompositeOperation, globalAlpha |-> c.globalAlpha]

NoDraw == [what |-> "none"]

\* the context of a new canvas
FreshContext ==
  [saved |-> <<>>, clip |-> <<>>, transform |-> "identity",
   globalCompositeOperation |-> "source-over", globalAlpha |-> 1000,
   draws |-> 0, lastDraw |-> NoDraw]

ctxSave(c) == [c EXCEPT !.saved = Append(@, DrawingState(c))]

\* restore() with nothing saved does nothing
ctxRestore(c) ==
  IF c.saved = <<>> THEN c
  ELSE LET s == c.saved[Len(c.saved)]
       IN  [c EXCEPT !.saved = SubSeq(@, 1, Len(@) - 1),
                     !.clip = s.clip, !.transform = s.transform,
                     !.globalCompositeOperation = s.globalCompositeOperation,
                     !.globalAlpha = s.globalAlpha]

ctxClip(c, path) == [c EXCEPT !.clip = Append(@, path)]

ctxDraw(c, what) ==
  [c EXCEPT !.draws = @ + 1, !.lastDraw = [what |-> what, state |-> DrawingState(c)]]

\* denom of drawTriangleWarp; |denom| < 1e-10 is denom = 0 on these coordinates
triangleDenom(sx0, sy0, sx1, sy1, sx2, sy2) ==
  ((sx1 - sx0) * (sy2 - sy0)) - ((sy1 - sy0) * (sx2 - sx0))

\* drawTriangleWarp with the early return leaving the context as it is
drawTriangleWarpNoRestore(c, sx0, sy0, sx1, sy1, sx2, sy2) ==
  LET clipped == ctxClip(ctxSave(c), "triangle")
  IN  IF triangleDenom(sx0, sy0, sx1, sy1, sx2, sy2) = 0 THEN clipped
      ELSE ctxRestore(ctxDraw([clipped EXCEPT !.transform = "affine"], "source"))

\* drawTriangleWarp, on the state of ctx: save, clip to the triangle, then
\* restore at once for a degenerate source triangle, else setTransform,
\* drawImage, restore
drawTriangleWarpOn(c, sx0, sy0, sx1, sy1, sx2, sy2) ==
  LET clipped == ctxClip(ctxSave(c), "triangle")
  IN  IF triangleDenom(sx0, sy0, sx1, sy1, sx2, sy2) = 0 THEN ctxRestore(clipped)
      ELSE ctxRestore(ctxDraw([clipped EXCEPT !.transform = "affine"], "source"))

\* the k-th drawTriangleWarp call of drawQuadWarp, k from 0: the first or the
\* second triangle of cell (ix, iy); source coordinates in units of 1 / n
warpTriangleOn(c, k, sourceWidth, sourceHeight) ==
  LET ix == (k \div 2) % HOMOGRAPHY_SUBDIV
      iy == (k \div 2) \div HOMOGRAPHY_SUBDIV
      s0 == ix * sourceWidth
      t0 == iy * sourceHeight
      s1 == (ix + 1) * sourceWidth
      t1 == (iy + 1) * sourceHeight
  IN  IF k % 2 = 0 THEN drawTriangleWarpOn(c, s0, t0, s1, t0, s1, t1)
      ELSE drawTriangleWarpOn(c, s0, t0, s1, t1, s0, t1)

\* the calls lo .. hi - 1 in their order
RECURSIVE warpCallsOn(_, _, _, _, _)
warpCallsOn(c, lo, hi, sourceWidth, sourceHeight) ==
  IF hi - lo = 1 THEN warpTriangleOn(c, lo, sourceWidth, sourceHeight)
  ELSE Once(warpCallsOn(c, lo, (lo + hi) \div 2, sourceWidth, sourceHeight),
            LAMBDA half : warpCallsOn(half, (lo + hi) \div 2, hi, sourceWidth, sourceHeight))

\* drawQuadWarp, on the state of ctx: one turn of the loop over iy, which is
\* the loop over ix with two calls a cell
warpRowOn(c, iy, sourceWidth, sourceHeight) ==
  warpCallsOn(c, 2 * HOMOGRAPHY_SUBDIV * iy, 2 * HOMOGRAPHY_SUBDIV * (iy + 1),
              sourceWidth, sourceHeight)

\* renderTiledWall: the pattern fill and the grout lines on the new offscreen context
tilePatternOn(off) ==
  LET filled == ctxRestore(ctxDraw([ctxSave(off) EXCEPT !.transform = "scaled"], "pattern"))
  IN  ctxRestore(ctxDraw(ctxSave(filled), "grout"))

\* renderTiledWall: the lighting pass.  lighting is "none", "other size" or
\* "wall size"; lightingStrength is in thousandths.
lightingPass(off, lighting, lightingStrength) ==
  IF lighting # "wall size" THEN off
  ELSE LET first == ctxDraw([off EXCEPT !.globalCompositeOperation = "multiply"], "lighting")
           extra == MathMin(1000, MathMax(1000, lightingStrength) - 1000)
           second ==
             IF MathMax(1000, lightingStrength) > 1000
               THEN [ctxDraw([first EXCEPT !.globalAlpha = extra], "lighting")
                       EXCEPT !.globalAlpha = 1000]
               ELSE first
       IN  [second EXCEPT !.globalCompositeOperation = "source-over"]

\* renderTiledWall: the noise pass; noiseOpacity in thousandths
noisePass(off, noiseOpacity) ==
  IF noiseOpacity <= 0 THEN off
  ELSE LET drawn == ctxDraw([off EXCEPT !.globalAlpha = noiseOpacity,
                                        !.globalCompositeOperation = "overlay"], "noise")
       IN  [drawn EXCEPT !.globalAlpha = 1000, !.globalCompositeOperation = "source-over"]

\* TileOverlayCanvas: one floor pass (gradient, desaturation or vignette)
floorPass(off, operation) ==
  ctxRestore(ctxDraw([ctxClip(ctxSave(off), "quad")
                        EXCEPT !.globalCompositeOperation = operation], "gradient"))

\* TileOverlayCanvas: the offscreen canvas drawn to ctx, then the mask with destination-in
compositeMask(c) ==
  LET tiles == ctxDraw(c, "off")
      masked == ctxDraw([tiles EXCEPT !.globalCompositeOperation = "destination-in"], "mask")
  IN  [masked EXCEPT !.globalCompositeOperation = "source-over"]

-----------------------------------------------------------------------------
(* Bounds of the pure-function specifications *)

\* masks given to combineMasks have at most this many pixels
MaxMaskPixels == 4

\* the larger of the two output sizes buildWallMask is called with
DepthOutSize == 4

NoCall == [made |-> FALSE]

MaskAlphas == {0, 100, 255}
MaskRgbs == {0, 255}

MaskShapes ==
  {s \in (1..MaxMaskPixels) \X (1..MaxMaskPixels) : s[1] * s[2] <= MaxMaskPixels}

MasksOf(width, height) ==
  {MaskFrom(width, height, rgb, alpha) :
     rgb \in MaskRgbs, alpha \in [1..(width * height) -> MaskAlphas]}

NoPass == [ran |-> FALSE]

CombineIdle == maskA = NoImage /\ maskB = NoImage /\ combined = NoImage
DepthIdle == depthCall = NoCall /\ depthMask = NoImage
RenderIdle ==
  passProps = NoCall /\ roomImageData = NoImage /\ edgeMaskData = NoImage /\ pass = NoPass
PageIdle == InitPage
NoWarp == [done |-> FALSE]
WarpIdle == warpCall = NoCall /\ warpOut = NoWarp
TiledIdle == tiledCall = NoCall /\ tiledOut = NoCall
LightIdle == lightCall = NoCall /\ lightOut = NoCall
FeatherIdle == featherCall = NoCall /\ featherOut = NoCall
EarlyIdle ==
  /\ CombineIdle /\ DepthIdle /\ RenderIdle /\ PageIdle /\ OverlayIdle
  /\ WarpIdle /\ TiledIdle /\ LightIdle /\ FeatherIdle
CatalogIdle == catalogRes = NoCall /\ catalogOut = <<>>
FillIdle == fillIn = NoCall /\ fill = <<>>
SurfaceIdle == visualizer = NoCall /\ rendered = NoCall
SmoothIdle == smoothCall = NoCall /\ smoothOut = <<>>
CanvasIdle == canvasCall = NoCall /\ contexts = NoCall
LoaderIdle ==
  /\ sessionPromise = NoPromise /\ sessionLoad = NoLoad /\ depthCalls = <<>>
  /\ cachedModel = NoModel /\ segCalls = <<>>
LateIdle == CatalogIdle /\ LoaderIdle /\ FillIdle /\ SurfaceIdle /\ SmoothIdle /\ CanvasIdle
NotCatalogIdle == EarlyIdle /\ LoaderIdle /\ FillIdle /\ SurfaceIdle /\ SmoothIdle /\ CanvasIdle
NotLoaderIdle == EarlyIdle /\ CatalogIdle /\ FillIdle /\ SurfaceIdle /\ SmoothIdle /\ CanvasIdle
NotFillIdle == EarlyIdle /\ CatalogIdle /\ LoaderIdle /\ SurfaceIdle /\ SmoothIdle /\ CanvasIdle
NotSurfaceIdle == EarlyIdle /\ CatalogIdle /\ LoaderIdle /\ FillIdle /\ SmoothIdle /\ CanvasIdle
NotSmoothIdle == EarlyIdle /\ CatalogIdle /\ LoaderIdle /\ FillIdle /\ SurfaceIdle /\ CanvasIdle
NotCanvasIdle == EarlyIdle /\ CatalogIdle /\ LoaderIdle /\ FillIdle /\ SurfaceIdle /\ SmoothIdle
CallsIdle == WarpIdle /\ TiledIdle /\ LightIdle /\ FeatherIdle /\ LateIdle

-----------------------------------------------------------------------------
(* SpecCombine: combineMasks on every pair of equal-size masks *)

InitCombine ==
  /\ \E s \in MaskShapes :
       /\ maskA \in MasksOf(s[1], s[2])
       /\ maskB \in MasksOf(s[1], s[2])
  /\ combined = NoImage
  /\ DepthIdle /\ RenderIdle /\ PageIdle /\ OverlayIdle /\ CallsIdle

\* a caller runs combineMasks(width, height, maskA, maskB) on masks of that size
CombineMasks ==
  /\ combined = NoImage
  /\ combined' = combineMasks(maskA.width, maskA.height, maskA, maskB)
  /\ UNCHANGED <<maskA, maskB, depthVars, renderVars, pageVars, overlayVars, callVars>>

NextCombine == CombineMasks

SpecCombine == InitCombine /\ [][NextCombine]_vars

-----------------------------------------------------------------------------
(* SpecDepth: buildWallMask on small depth maps *)

DepthValues == {1, 5, 9}

\* every 2 x 2 map over DepthValues, and the flat maps of 0 and of a negative depth
DepthMaps ==
  {[depth |-> d, width |-> 2, height |-> 2] : d \in [1..4 -> DepthValues]}
  \cup {[depth |-> <<v, v, v, v>>, width |-> 2, height |-> 2] : v \in {0, -5}}

DepthOutSizes == {2, DepthOutSize}

\* the whole output as the wall, its top strip, and a skew quad with corners
\* outside the output
DepthQuads(w, h) ==
  {<<[x |-> 0, y |-> 0], [x |-> w - 1, y |-> 0], [x |-> w - 1, y |-> h - 1], [x |-> 0, y |-> h - 1]>>,
   <<[x |-> 0, y |-> 0], [x |-> w - 1, y |-> 0], [x |-> w - 1, y |-> 1], [x |-> 0, y |-> 1]>>,
   <<[x |-> -1, y |-> -2], [x |-> w + 3, y |-> 0], [x |-> w, y |-> h + 2], [x |-> 1, y |-> h]>>}

InitDepth ==
  /\ \E dm \in DepthMaps, size \in DepthOutSizes, flag \in BOOLEAN :
       \E quad \in DepthQuads(size, size) :
         depthCall = [made |-> TRUE, dm |-> dm, quad |-> quad,
                      outputWidth |-> size, outputHeight |-> size,
                      depthCloserIsHigher |-> flag]
  /\ depthMask = NoImage
  /\ CombineIdle /\ RenderIdle /\ PageIdle /\ OverlayIdle /\ CallsIdle

BuildWallMask ==
  /\ depthCall.made
  /\ depthMask = NoImage
  /\ depthMask' = buildWallMask(depthCall.dm, depthCall.quad, depthCall.outputWidth,
                                depthCall.outputHeight, DepthTolerance,
                                depthCall.depthCloserIsHigher)
  /\ UNCHANGED <<depthCall, combineVars, renderVars, pageVars, overlayVars, callVars>>

NextDepth == BuildWallMask

SpecDepth == InitDepth /\ [][NextDepth]_vars

-----------------------------------------------------------------------------
(* SpecRender: one overlay with four corners and a loaded tile, on pixels. *)
(* The room image loads, the edge mask is computed from it, and the render *)
(* effect runs before and after.                                           *)

\* the overlay is RenderSize x RenderSize pixels
RenderSize == 12

RenderQuad ==
  <<[x |-> 1, y |-> 1], [x |-> RenderSize - 1, y |-> 1],
    [x |-> RenderSize - 1, y |-> RenderSize - 1], [x |-> 1, y |-> RenderSize - 1]>>

HoleCentre == RenderSize \div 2

\* squared radii of the circular foreground region of a segmentation mask
HoleRadiiSquared == {2, 8, 18}

\* a segmentation mask: alpha 0 in the disc around the centre, 255 elsewhere
HoleMask(r2) ==
  MaskFrom(RenderSize, RenderSize, 255,
           [p \in 1..(RenderSize * RenderSize) |->
              LET dx == ((p - 1) % RenderSize) - HoleCentre
                  dy == ((p - 1) \div RenderSize) - HoleCentre
              IN  IF dx * dx + dy * dy <= r2 THEN 0 ELSE 255])

\* 3 x 3 depth maps: a far wall of depth 2 with a near object of depth 8 in
\* the middle, and the same with the values exchanged
RenderDepthMaps ==
  {[depth |-> <<2, 2, 2, 2, 8, 2, 2, 2, 2>>, width |-> 3, height |-> 3],
   [depth |-> <<8, 8, 8, 8, 2, 8, 8, 8, 8>>, width |-> 3, height |-> 3]}

\* grey room images: flat, or with one brightness step between two columns
RoomStep(stepAt) ==
  [width |-> RenderSize, height |-> RenderSize,
   data |-> Seal([i \in 1..(4 * RenderSize * RenderSize) |->
                    IF i % 4 = 0 THEN 255
                    ELSE IF ((i - 1) \div 4) % RenderSize < stepAt THEN 40 ELSE 200])]

RoomImages == {RoomStep(0), RoomStep(2), RoomStep(RenderSize - 2)}

\* the component mounted over a room photo, before the tile image has loaded
\* and before the parent has any depth map or segmentation mask
InitRender ==
  /\ \E flag \in BOOLEAN :
       passProps = [made |-> TRUE, corners |-> RenderQuad,
                    width |-> RenderSize, height |-> RenderSize,
                    depthMap |-> NoDepth, depthCloserIsHigher |-> flag,
                    wallMask |-> NoImage, surface |-> "wall"]
  /\ roomImageData \in RoomImages
  /\ edgeMaskData = NoImage
  /\ pass = NoPass
  /\ CombineIdle /\ DepthIdle /\ PageIdle /\ OverlayIdle /\ CallsIdle

\* the render effect runs again after a change of one of its dependencies,
\* once imageReady is true (the guard at the top of the effect)
Rerender(props, edge) == IF pass.ran THEN RenderPass(props, edge) ELSE pass

\* img.onload of the tile image: setImageReady(true), then the render effect
TileOnloadPixels ==
  /\ passProps.made
  /\ ~pass.ran
  /\ pass' = RenderPass(passProps, edgeMaskData)
  /\ UNCHANGED <<passProps, roomImageData, edgeMaskData, combineVars, depthVars, pageVars, overlayVars, callVars>>

\* roomImg.onload: setEdgeMask(occlusionMaskToWallMask(buildOcclusionMask(imageData)))
RoomOnloadPixels ==
  /\ passProps.made
  /\ edgeMaskData = NoImage
  /\ edgeMaskData' = occlusionMaskToWallMask(
                       buildOcclusionMask(roomImageData, DefaultDilationIterations))
  /\ pass' = Rerender(passProps, edgeMaskData')
  /\ UNCHANGED <<passProps, roomImageData, combineVars, depthVars, pageVars, overlayVars, callVars>>

\* the parent passes a depth map: the depthMap prop changes
DepthMapPropPixels ==
  /\ passProps.made
  /\ passProps.depthMap = NoDepth
  /\ \E dm \in RenderDepthMaps :
       /\ passProps' = [passProps EXCEPT !.depthMap = dm]
       /\ pass' = Rerender(passProps', edgeMaskData)
  /\ UNCHANGED <<roomImageData, edgeMaskData, combineVars, depthVars, pageVars, overlayVars, callVars>>

\* the parent passes a segmentation mask: the wallMask prop changes
WallMaskPropPixels ==
  /\ passProps.made
  /\ passProps.wallMask = NoImage
  /\ \E r2 \in HoleRadiiSquared :
       /\ passProps' = [passProps EXCEPT !.wallMask = HoleMask(r2)]
       /\ pass' = Rerender(passProps', edgeMaskData)
  /\ UNCHANGED <<roomImageData, edgeMaskData, combineVars, depthVars, pageVars, overlayVars, callVars>>

NextRender ==
  TileOnloadPixels \/ RoomOnloadPixels \/ DepthMapPropPixels \/ WallMaskPropPixels

SpecRender == InitRender /\ [][NextRender]_vars

-----------------------------------------------------------------------------
(* SpecWarp: drawQuadWarp into a WarpCanvas x WarpCanvas context *)

WarpCanvas == 8

Pt(px, py) == [x |-> px, y |-> py]

\* convex quads of both winding orders
WarpConvexQuads ==
  LET forward == {<<p0, p1, p2, p3>> :
                    p0 \in {Pt(1, 1), Pt(0, 2)}, p1 \in {Pt(6, 1), Pt(7, 0)},
                    p2 \in {Pt(6, 6), Pt(7, 5)}, p3 \in {Pt(1, 6), Pt(2, 7)}}
  IN  forward \cup {<<q[1], q[4], q[3], q[2]>> : q \in forward}

\* simple quads with a reflex corner
WarpConcaveQuads ==
  {<<Pt(1, 1), Pt(7, 1), Pt(3, 3), Pt(1, 7)>>,
   <<Pt(0, 0), Pt(3, 2), Pt(6, 0), Pt(3, 6)>>}

\* three corners on a line, coincident corners, all corners on a line or in a point
WarpDegenerateQuads ==
  {<<Pt(1, 1), Pt(3, 1), Pt(5, 1), Pt(1, 5)>>,
   <<Pt(1, 1), Pt(5, 1), Pt(5, 5), Pt(3, 3)>>,
   <<Pt(1, 1), Pt(5, 1), Pt(5, 5), Pt(5, 5)>>,
   <<Pt(0, 0), Pt(2, 2), Pt(4, 4), Pt(0, 4)>>,
   <<Pt(2, 2), Pt(2, 2), Pt(2, 2), Pt(2, 2)>>,
   <<Pt(1, 2), Pt(3, 2), Pt(5, 2), Pt(7, 2)>>,
   <<Pt(1, 1), Pt(5, 1), Pt(1, 1), Pt(5, 1)>>}

WarpQuads == WarpConvexQuads \cup WarpConcaveQuads \cup WarpDegenerateQuads

WarpSourceSizes == {<<4, 4>>, <<6, 5>>}

InitWarp ==
  /\ \E q \in WarpQuads, size \in WarpSourceSizes :
       warpCall = [made |-> TRUE, destQuad |-> q,
                   sourceWidth |-> size[1], sourceHeight |-> size[2]]
  /\ warpOut = NoWarp
  /\ CombineIdle /\ DepthIdle /\ RenderIdle /\ PageIdle /\ OverlayIdle /\ TiledIdle /\ LightIdle
  /\ FeatherIdle /\ LateIdle

\* the corners of a quad given in whole pixels, as numbers
NumQuad(q) == [i \in 1..4 |-> [x |-> Num(q[i].x), y |-> Num(q[i].y)]] \o <<>>

\* a caller runs drawQuadWarp(ctx, source, destQuad, sourceWidth, sourceHeight)
DrawQuadWarp ==
  /\ warpOut = NoWarp
  /\ LET quad == NumQuad(warpCall.destQuad)
         sourceWidth == Num(warpCall.sourceWidth)
         sourceHeight == Num(warpCall.sourceHeight)
     IN  warpOut' =
           [done |-> TRUE,
            draws |-> drawQuadWarp(quad, sourceWidth, sourceHeight),
            corners |-> warpedCorners(homographyFromQuad(quad, sourceWidth, sourceHeight),
                                      sourceWidth, sourceHeight)]
  /\ UNCHANGED <<warpCall, tiledVars, lightVars, featherVars, lateVars, combineVars, depthVars, renderVars, pageVars, overlayVars>>

NextWarp == DrawQuadWarp

SpecWarp == InitWarp /\ [][NextWarp]_vars

-----------------------------------------------------------------------------
(* SpecTiled: renderTiledWall on quads in whole and half pixels *)

\* half the side of the largest wall quad, in pixels
TiledHalfSide == 4

Half(n) == Frac(n, 2)

TiledQuads ==
  LET box(x0, y0, x1, y1) ==
        <<[x |-> Half(x0), y |-> Half(y0)], [x |-> Half(x1), y |-> Half(y0)],
          [x |-> Half(x1), y |-> Half(y1)], [x |-> Half(x0), y |-> Half(y1)]>>
      side == 4 * TiledHalfSide
  IN  {box(0, 0, side, side - 4), box(2, 2, side - 2, side - 2),
       box(0, 0, side - 1, side - 4), box(0, 0, side, side - 3),
       box(2, 0, 2, side), box(0, 6, side, 6)}

TiledImageSizes == {<<2, 2>>, <<0, 0>>, <<3, 0>>}
TileSizesMM == {[width |-> 300, height |-> 300], [width |-> 0, height |-> 300],
                [width |-> 300, height |-> -300]}
WallSizesMM == {[width |-> 3000, height |-> 2400], [width |-> 3100, height |-> 2500],
                [width |-> 0, height |-> 2400], [width |-> 3000, height |-> 0]}
LightingCanvases ==
  {NoCanvas, [present |-> TRUE, width |-> 2 * TiledHalfSide,
              height |-> 2 * TiledHalfSide - 2]}

InitTiled ==
  /\ \E q \in TiledQuads, img \in TiledImageSizes, tile \in TileSizesMM,
        wall \in WallSizesMM, lighting \in LightingCanvases :
       tiledCall = [made |-> TRUE, wallQuad |-> q, imgW |-> img[1], imgH |-> img[2],
                    tileSizeMM |-> tile, wallSizeMM |-> wall, lightingCanvas |-> lighting]
  /\ tiledOut = NoCall
  /\ CombineIdle /\ DepthIdle /\ RenderIdle /\ PageIdle /\ OverlayIdle /\ WarpIdle /\ LightIdle
  /\ FeatherIdle /\ LateIdle

\* a caller runs renderTiledWall(ctx, wallQuad, tileImage, tileSizeMM, wallSizeMM, options)
RenderTiledWall ==
  /\ tiledOut = NoCall
  /\ tiledOut' = [made |-> TRUE,
                  out |-> renderTiledWall(tiledCall.wallQuad, tiledCall.imgW, tiledCall.imgH,
                                          tiledCall.tileSizeMM, tiledCall.wallSizeMM,
                                          tiledCall.lightingCanvas)]
  /\ UNCHANGED <<tiledCall, warpVars, lightVars, featherVars, lateVars, combineVars, depthVars, renderVars, pageVars, overlayVars>>

NextTiled == RenderTiledWall

SpecTiled == InitTiled /\ [][NextTiled]_vars

-----------------------------------------------------------------------------
(* SpecLight: the lighting step of one render pass and its renderTiledWall *)

\* the width of the output canvas of the pass; its height is two less
LightWidth == 6

GreyImage(width, height, grey) ==
  [width |-> width, height |-> height,
   data |-> [i \in 1..(4 * width * height) |->
               IF i % 4 = 0 THEN 255 ELSE grey[(i + 3) \div 4]] \o <<>>]

\* a flat room, a ramp from left to right, and one dark pixel on white
LightRooms(width, height) ==
  {GreyImage(width, height, [p \in 1..(width * height) |-> 128]),
   GreyImage(width, height, [p \in 1..(width * height) |-> 40 * ((p - 1) % width)]),
   GreyImage(width, height, [p \in 1..(width * height) |-> IF p = width + 2 THEN 0 ELSE 255])}

\* no mask, wall everywhere, wall nowhere, wall in the left columns only, and
\* a mask made for a smaller canvas
LightMasks(width, height) ==
  {NoImage,
   MaskFrom(width, height, 255, [p \in 1..(width * height) |-> 255]),
   MaskFrom(width, height, 255, [p \in 1..(width * height) |-> 0]),
   MaskFrom(width, height, 255,
            [p \in 1..(width * height) |-> IF (p - 1) % width < 2 THEN 255 ELSE 0]),
   MaskFrom(width - 3, height - 2, 255, [p \in 1..((width - 3) * (height - 2)) |-> 255])}

\* boxes in half pixels: whole, with a fractional width, reaching past the
\* right edge of the canvas, and narrower than a pixel
LightQuads(width, height) ==
  LET box(x0, y0, x1, y1) ==
        <<[x |-> Half(x0), y |-> Half(y0)], [x |-> Half(x1), y |-> Half(y0)],
          [x |-> Half(x1), y |-> Half(y1)], [x |-> Half(x0), y |-> Half(y1)]>>
  IN  {box(2, 0, 2 * width - 2, 2 * height - 2), box(2, 0, 2 * width - 3, 2 * height - 2),
       box(2 * width - 4, 2, 2 * width + 4, 2 * height - 2), box(2, 2, 3, 2 * height - 2)}

InitLight ==
  /\ \E room \in LightRooms(LightWidth, LightWidth - 2),
        mask \in LightMasks(LightWidth, LightWidth - 2),
        q \in LightQuads(LightWidth, LightWidth - 2), loaded \in BOOLEAN :
       \* a room image that has not loaded is one image, whatever it will show
       /\ loaded \/ room = GreyImage(LightWidth, LightWidth - 2,
                                     [p \in 1..(LightWidth * (LightWidth - 2)) |-> 128])
       /\ lightCall = [made |-> TRUE, roomLoaded |-> loaded, room |-> room, quad |-> q,
                    width |-> LightWidth, height |-> LightWidth - 2,
                    occlusionMask |-> mask]
  /\ lightOut = NoCall
  /\ CombineIdle /\ DepthIdle /\ RenderIdle /\ PageIdle /\ OverlayIdle
  /\ WarpIdle /\ TiledIdle /\ FeatherIdle /\ LateIdle

\* the render effect from the lighting map to renderTiledWall, for the wall
\* surface and a catalog tile without sizeMm
RenderLighting ==
  /\ lightOut = NoCall
  /\ LET c == lightCall
     IN  lightOut' =
           Once(OverlayLightingCanvas(c.roomLoaded, c.room, c.quad, c.width, c.height,
                                      c.occlusionMask),
                LAMBDA canvas :
                  [made |-> TRUE,
                   map |-> LightingMapOf(c.roomLoaded, c.room, c.quad, c.width, c.height,
                                         c.occlusionMask),
                   lightingCanvas |-> canvas,
                   tiled |-> renderTiledWall(c.quad, 2, 2, DEFAULT_TILE_SIZE_MM,
                                             [width |-> DEFAULT_WALL_WIDTH_MM,
                                              height |-> DEFAULT_WALL_HEIGHT_MM],
                                             CanvasOf(canvas))])
  /\ UNCHANGED <<lightCall, warpVars, tiledVars, featherVars, lateVars, combineVars, depthVars, renderVars,
                 pageVars, overlayVars>>

NextLight == RenderLighting

SpecLight == InitLight /\ [][NextLight]_vars

-----------------------------------------------------------------------------
(* SpecFeather: createFeatheredQuadMask on a FeatherSize x FeatherSize buffer *)

FeatherSize == 12

\* squares centred in a buffer of the given size, by their margin
FeatherSquare(size, m) ==
  <<Pt(m, m), Pt(size - m, m), Pt(size - m, size - m), Pt(m, size - m)>>

\* convex quads: centred squares, a trapezoid, a diamond, a sliver and a quad
\* with corners outside the buffer
FeatherConvexQuads(size) ==
  {FeatherSquare(size, m) : m \in {1, 3, size \div 2 - 1}}
    \cup {<<Pt(2, 1), Pt(size - 1, 3), Pt(size - 2, size - 2), Pt(1, size - 4)>>,
          <<Pt(size \div 2, 1), Pt(size - 1, size \div 2), Pt(size \div 2, size - 1),
            Pt(1, size \div 2)>>,
          <<Pt(1, 1), Pt(size - 1, size - 4), Pt(size - 1, size - 2), Pt(1, 3)>>,
          <<Pt(0 - 2, 0 - 1), Pt(size + 1, 2), Pt(size, size + 2), Pt(3, size)>>}

\* simple quads with a reflex corner
FeatherConcaveQuads(size) ==
  {<<Pt(0, 0), Pt(size, 0), Pt(size \div 4, size \div 4), Pt(0, size)>>,
   <<Pt(1, 1), Pt(size \div 2, 4), Pt(size - 1, 1), Pt(size \div 2, size - 1)>>}

Reversed(q) == <<q[4], q[3], q[2], q[1]>>

\* every quad in the order given and with its corners in reverse order
FeatherQuads(size) ==
  LET forward == FeatherConvexQuads(size) \cup FeatherConcaveQuads(size)
  IN  forward \cup {Reversed(q) : q \in forward}

\* hard edge (README), the wall's FEATHER_PX and the floor's, and one between
FeatherPxs == {0, 2, FEATHER_PX, 8}

InitFeather ==
  /\ \E q \in FeatherQuads(FeatherSize), px \in FeatherPxs :
       featherCall = [made |-> TRUE, width |-> FeatherSize, height |-> FeatherSize,
                      quad |-> q, featherPx |-> px]
  /\ featherOut = NoCall
  /\ CombineIdle /\ DepthIdle /\ RenderIdle /\ PageIdle /\ OverlayIdle
  /\ WarpIdle /\ TiledIdle /\ LightIdle /\ LateIdle

\* a caller runs createFeatheredQuadMask(width, height, quad, featherPx)
CreateFeatheredQuadMask ==
  /\ featherOut = NoCall
  /\ LET c == featherCall
     IN  featherOut' =
           [made |-> TRUE,
            alpha |-> quadAlpha(c.width, c.height, c.quad),
            mask |-> createFeatheredQuadMask(c.width, c.height, c.quad, c.featherPx)]
  /\ UNCHANGED <<featherCall, warpVars, tiledVars, lightVars, lateVars, combineVars, depthVars,
                 renderVars, pageVars, overlayVars>>

NextFeather == CreateFeatheredQuadMask

SpecFeather == InitFeather /\ [][NextFeather]_vars

-----------------------------------------------------------------------------
(* SpecCatalog: useTileCatalog fetches /api/tiles and builds the catalog, *)
(* on mount and on every refetch                                          *)

\* the number of times the catalog is fetched
MaxFetches == 2

Filenames ==
  {<<"T", "i", "l", "e", " ", "A", ".", "p", "n", "g">>,
   <<"t", "i", "l", "e", "-", "a", ".", "p", "n", "g">>,
   <<"a", " ", " ", "b", "_", "7", ".", "J", "P", "G">>,
   <<".", "p", "n", "g">>,
   <<"B", "!", "7", ".", "s", "v", "g">>,
   <<"n", "o", "e", "x", "t">>,
   <<"a", ".", "b", ".", "c">>,
   <<"x", ".">>}

InitCatalog ==
  /\ \E f1 \in Filenames, f2 \in Filenames, f3 \in Filenames :
       catalogRes = [made |-> TRUE, wall |-> <<f1, f2>>, floor |-> <<f3>>, both |-> <<f1, f1>>]
  /\ catalogOut = <<>>
  /\ NotCatalogIdle

\* fetchCatalog with an ok response: setCatalog(buildCatalogFromFolders(data))
FetchCatalog ==
  /\ Len(catalogOut) < MaxFetches
  /\ catalogOut' = Append(catalogOut, buildCatalogFromFolders(catalogRes))
  /\ UNCHANGED <<catalogRes, notCatalogVars>>

NextCatalog == FetchCatalog

SpecCatalog == InitCatalog /\ [][NextCatalog]_vars

-----------------------------------------------------------------------------
(* SpecLoader: estimateDepth and segmentWall / segmentFloor calls in one   *)
(* process, with the loads of the depth session and of the DeepLab model   *)

MaxDepthCalls == 2

\* segmentWall and segmentFloor are each called once
SegSurfaces == {"wall", "floor"}

InitLoader ==
  /\ sessionPromise = NoPromise /\ sessionLoad = NoLoad /\ depthCalls = <<>>
  /\ cachedModel = NoModel
  /\ segCalls = [surface \in SegSurfaces |-> [pc |-> "none", error |-> "none"]]
  /\ NotLoaderIdle

\* estimateDepth(imageUrl): up to the await of the image
EstimateDepth ==
  /\ Len(depthCalls) < MaxDepthCalls
  /\ depthCalls' = Append(depthCalls, [pc |-> "image", error |-> "none",
                                       afterReject |-> sessionPromise.state = "rejected"])
  /\ UNCHANGED <<sessionPromise, sessionLoad, cachedModel, segCalls, notLoaderVars>>

\* el.onload: preprocess, then await getSession()
DepthImageLoaded(i) ==
  /\ i <= Len(depthCalls) /\ depthCalls[i].pc = "image"
  /\ LET got == getSession(sessionPromise, sessionLoad)
     IN  sessionPromise' = got[1] /\ sessionLoad' = got[2]
  /\ depthCalls' = [depthCalls EXCEPT ![i].pc = "session"]
  /\ UNCHANGED <<cachedModel, segCalls, notLoaderVars>>

\* el.onerror
DepthImageFailed(i) ==
  /\ i <= Len(depthCalls) /\ depthCalls[i].pc = "image"
  /\ depthCalls' = [depthCalls EXCEPT ![i].pc = "rejected",
                                      ![i].error = "Failed to load image for depth"]
  /\ UNCHANGED <<sessionPromise, sessionLoad, cachedModel, segCalls, notLoaderVars>>

\* loadOrt() fulfils: the loop fetches the first source
OrtReady ==
  /\ sessionLoad.pc = "ort"
  /\ sessionLoad' = [sessionLoad EXCEPT !.pc = "fetch", !.fetched = Append(@, ModelSources[1])]
  /\ UNCHANGED <<sessionPromise, depthCalls, cachedModel, segCalls, notLoaderVars>>

\* loadOrt() rejects
OrtFailed ==
  /\ sessionLoad.pc = "ort"
  /\ sessionLoad' = [sessionLoad EXCEPT !.pc = "done"]
  /\ sessionPromise' = Rejected("Failed to load ONNX Runtime from any CDN")
  /\ UNCHANGED <<depthCalls, cachedModel, segCalls, notLoaderVars>>

\* the fetch in flight answers
ModelFetchAnswered(answer) ==
  /\ sessionLoad.pc = "fetch"
  /\ LET next == modelFetchAnswered(sessionLoad, answer)
     IN  sessionPromise' = next[1] /\ sessionLoad' = next[2]
  /\ UNCHANGED <<depthCalls, cachedModel, segCalls, notLoaderVars>>

\* arrayBuffer() and InferenceSession.create, with the external weights
\* when asked for, end with a session
SessionCreated ==
  /\ sessionLoad.pc = "create"
  /\ sessionLoad' = [sessionLoad EXCEPT !.pc = "done"]
  /\ sessionPromise' = Fulfilled
  /\ UNCHANGED <<depthCalls, cachedModel, segCalls, notLoaderVars>>

\* or with one of their errors
SessionCreateFailed ==
  /\ sessionLoad.pc = "create"
  /\ sessionLoad' = [sessionLoad EXCEPT !.pc = "done"]
  /\ sessionPromise' = Rejected("Session create failed")
  /\ UNCHANGED <<depthCalls, cachedModel, segCalls, notLoaderVars>>

\* the await of getSession() in estimateDepth resumes
DepthSessionSettled(i) ==
  /\ i <= Len(depthCalls) /\ depthCalls[i].pc = "session"
  /\ sessionPromise.state \in {"fulfilled", "rejected"}
  /\ depthCalls' =
       IF sessionPromise.state = "fulfilled"
         THEN [depthCalls EXCEPT ![i].pc = "run"]
         ELSE [depthCalls EXCEPT ![i].pc = "rejected", ![i].error = sessionPromise.error]
  /\ UNCHANGED <<sessionPromise, sessionLoad, cachedModel, segCalls, notLoaderVars>>

\* session.run settles
DepthRunSettled(i, ok) ==
  /\ i <= Len(depthCalls) /\ depthCalls[i].pc = "run"
  /\ depthCalls' =
       IF ok THEN [depthCalls EXCEPT ![i].pc = "fulfilled"]
       ELSE [depthCalls EXCEPT ![i].pc = "rejected", ![i].error = "run failed"]
  /\ UNCHANGED <<sessionPromise, sessionLoad, cachedModel, segCalls, notLoaderVars>>

\* segmentWall / segmentFloor: up to await getModel()
SegmentSurface(surface) ==
  /\ segCalls[surface].pc = "none"
  /\ cachedModel' = getModel(cachedModel)
  /\ segCalls' = [segCalls EXCEPT ![surface].pc = "model"]
  /\ UNCHANGED <<sessionPromise, sessionLoad, depthCalls, notLoaderVars>>

\* loadDeepLab settles
DeepLabSettled(ok) ==
  /\ cachedModel.promise = Pending
  /\ cachedModel' = [cachedModel EXCEPT !.promise =
                       IF ok THEN Fulfilled ELSE Rejected("DeepLab load failed")]
  /\ UNCHANGED <<sessionPromise, sessionLoad, depthCalls, segCalls, notLoaderVars>>

\* the await of getModel() resumes; segmentByClass then awaits the image
SegModelSettled(i) ==
  /\ segCalls[i].pc = "model"
  /\ cachedModel.promise.state \in {"fulfilled", "rejected"}
  /\ segCalls' =
       IF cachedModel.promise.state = "fulfilled"
         THEN [segCalls EXCEPT ![i].pc = "image"]
         ELSE [segCalls EXCEPT ![i].pc = "rejected", ![i].error = cachedModel.promise.error]
  /\ UNCHANGED <<sessionPromise, sessionLoad, depthCalls, cachedModel, notLoaderVars>>

\* the image of segmentByClass loads, and the mask is built with the cached
\* model, or fails to load
SegImageSettled(i, ok) ==
  /\ segCalls[i].pc = "image"
  /\ segCalls' =
       IF ok THEN [segCalls EXCEPT ![i].pc = "fulfilled"]
       ELSE [segCalls EXCEPT ![i].pc = "rejected",
                             ![i].error = "Failed to load image for segmentation"]
  /\ cachedModel' = IF ok THEN getModel(cachedModel) ELSE cachedModel
  /\ UNCHANGED <<sessionPromise, sessionLoad, depthCalls, notLoaderVars>>

DepthCallIds == 1..(MaxDepthCalls + 1)
FetchAnswers == {"ok", "notOk", "throws"}

NextLoader ==
  \/ EstimateDepth
  \/ \E i \in DepthCallIds : DepthImageLoaded(i)
  \/ \E i \in DepthCallIds : DepthImageFailed(i)
  \/ OrtReady
  \/ OrtFailed
  \/ \E answer \in FetchAnswers : ModelFetchAnswered(answer)
  \/ SessionCreated
  \/ SessionCreateFailed
  \/ \E i \in DepthCallIds : DepthSessionSettled(i)
  \/ \E i \in DepthCallIds, ok \in BOOLEAN : DepthRunSettled(i, ok)
  \/ \E surface \in SegSurfaces : SegmentSurface(surface)
  \/ \E ok \in BOOLEAN : DeepLabSettled(ok)
  \/ \E i \in SegSurfaces : SegModelSettled(i)
  \/ \E i \in SegSurfaces, ok \in BOOLEAN : SegImageSettled(i, ok)

SpecLoader == InitLoader /\ [][NextLoader]_vars

-----------------------------------------------------------------------------
(* SpecFill: fillWallFromBorder on every barrier of every small image *)

MaxFillPixels == 12

FillSizes ==
  {wh \in (1..MaxFillPixels) \X (1..MaxFillPixels) : wh[1] * wh[2] <= MaxFillPixels}

InitFill ==
  /\ \E wh \in FillSizes :
       \E edgeBarrier \in [0..(wh[1] * wh[2] - 1) -> {0, 255}] :
         fillIn = [made |-> TRUE, width |-> wh[1], height |-> wh[2], edgeBarrier |-> edgeBarrier]
  /\ fill = [pc |-> "call"]
  /\ NotFillIdle

\* the allocation of wall and the border loops
FillBorder ==
  /\ fill.pc = "call"
  /\ fill' = pushEach([pc |-> "while", queue |-> <<>>, pushed |-> <<>>,
                       wall |-> [idx \in 0..(fillIn.width * fillIn.height - 1) |-> 0]],
                      fillIn.edgeBarrier, borderIndices(fillIn.width, fillIn.height))
  /\ UNCHANGED <<fillIn, notFillVars>>

\* one turn of while (queue.length > 0)
FillShift ==
  /\ fill.pc = "while" /\ fill.queue # <<>>
  /\ fill' = pushEach([fill EXCEPT !.queue = Tail(@)], fillIn.edgeBarrier,
                      fillNeighbours(fillIn.width, fillIn.height, Head(fill.queue)))
  /\ UNCHANGED <<fillIn, notFillVars>>

\* return wall
FillReturn ==
  /\ fill.pc = "while" /\ fill.queue = <<>>
  /\ fill' = [fill EXCEPT !.pc = "returned"]
  /\ UNCHANGED <<fillIn, notFillVars>>

NextFill == FillBorder \/ FillShift \/ FillReturn

SpecFill == InitFill /\ [][NextFill]_vars

-----------------------------------------------------------------------------
(* SpecSurfaces: clicks, drags, resets, tile selections, view mode         *)
(* switches and photo loads on the page with both surfaces; a render may   *)
(* come after each event or after several                                  *)

\* events handled between two renders
MaxUnrendered == 2

\* the photos loaded in turn
NextPhoto(url) == IF url = 1 THEN 2 ELSE 1

\* a click adds the point p; a drag moves one of the first two corners, or
\* a corner that does not exist, to the point q
ClickPoints == {"p"}
DragPoints == {"q"}
DragIndices == {-1, 0, 1, 9}
TileChoices == {"tile1"}

InitSurfaces ==
  /\ visualizer = [roomImageUrl |-> 0, viewMode |-> "wall",
                   wallCorners |-> <<>>, floorCorners |-> <<>>,
                   selectedWallTile |-> "null", selectedFloorTile |-> "null"]
  /\ rendered = [closure |-> closureOf(visualizer), events |-> 0]
  /\ NotSurfaceIdle

Handled == [rendered EXCEPT !.events = @ + 1]

\* the uploader's onUpload: handleImageLoad(url)
ImageLoad ==
  /\ rendered.events < MaxUnrendered
  /\ visualizer' = imageLoaded(visualizer, NextPhoto(visualizer.roomImageUrl))
  /\ rendered' = Handled
  /\ UNCHANGED notSurfaceVars

\* the Wall / Floor buttons: setViewMode
SetViewMode(mode) ==
  /\ rendered.events < MaxUnrendered
  /\ visualizer' = [visualizer EXCEPT !.viewMode = mode]
  /\ rendered' = Handled
  /\ UNCHANGED notSurfaceVars

CanvasClick(point) ==
  /\ rendered.events < MaxUnrendered /\ visualizer.roomImageUrl # 0
  /\ visualizer' = handleCanvasClick(visualizer, rendered.closure, point)
  /\ rendered' = Handled
  /\ UNCHANGED notSurfaceVars

\* CornerHandles' onMove
CornerMove(index, point) ==
  /\ rendered.events < MaxUnrendered /\ visualizer.roomImageUrl # 0
  /\ visualizer' = handleCornerMove(visualizer, rendered.closure, index, point)
  /\ rendered' = Handled
  /\ UNCHANGED notSurfaceVars

ResetCorners ==
  /\ rendered.events < MaxUnrendered /\ visualizer.roomImageUrl # 0
  /\ visualizer' = handleResetCorners(visualizer, rendered.closure)
  /\ rendered' = Handled
  /\ UNCHANGED notSurfaceVars

\* the tile picker's onSelect
SelectTile(tile) ==
  /\ rendered.events < MaxUnrendered
  /\ visualizer' = setSelectedTile(visualizer, rendered.closure, tile)
  /\ rendered' = Handled
  /\ UNCHANGED notSurfaceVars

\* the component renders with the present state
RenderPage ==
  /\ rendered.events > 0
  /\ rendered' = [closure |-> closureOf(visualizer), events |-> 0]
  /\ UNCHANGED <<visualizer, notSurfaceVars>>

NextSurfaces ==
  \/ ImageLoad
  \/ \E mode \in {"wall", "floor"} : SetViewMode(mode)
  \/ \E point \in ClickPoints : CanvasClick(point)
  \/ \E index \in DragIndices, point \in DragPoints : CornerMove(index, point)
  \/ ResetCorners
  \/ \E tile \in TileChoices : SelectTile(tile)
  \/ RenderPage

SpecSurfaces == InitSurfaces /\ [][NextSurfaces]_vars

-----------------------------------------------------------------------------
(* SpecSmooth: smoothWallMask on small masks, and once more on its result *)

MaxSmoothPixels == 7

\* masks of one row and of two rows
SmoothSizes ==
  {wh \in (1..MaxSmoothPixels) \X {1, 2} : wh[1] * wh[2] <= MaxSmoothPixels}

\* two alpha levels on every mask, a third one on the masks of up to 4 pixels
SmoothLevels(n) == IF n <= 4 THEN {0, 100, 255} ELSE {0, 255}

\* closeRadius and edgeBlurPx of a call
SmoothOptions ==
  {<<-1, 0>>, <<0, 0>>, <<1, 0>>, <<2, 0>>, <<5, 0>>, <<6, 0>>,
   <<0, -1>>, <<1, 1>>, <<3, 2>>, <<0, 4>>, <<0, 5>>}

InitSmooth ==
  /\ \E wh \in SmoothSizes, options \in SmoothOptions :
       \E alpha \in [1..(wh[1] * wh[2]) -> SmoothLevels(wh[1] * wh[2])] :
         smoothCall = [made |-> TRUE, mask |-> MaskFrom(wh[1], wh[2], 7, alpha \o <<>>),
                       closeRadius |-> options[1], edgeBlurPx |-> options[2]]
  /\ smoothOut = <<>>
  /\ NotSmoothIdle

\* smoothWallMask(mask, {closeRadius, edgeBlurPx})
SmoothWallMask ==
  /\ smoothOut = <<>>
  /\ smoothOut' = <<smoothWallMask(smoothCall.mask, smoothCall.closeRadius, smoothCall.edgeBlurPx)>>
  /\ UNCHANGED <<smoothCall, notSmoothVars>>

\* smoothWallMask(result, {closeRadius, edgeBlurPx})
SmoothAgain ==
  /\ Len(smoothOut) = 1
  /\ smoothOut' = Append(smoothOut, smoothWallMask(smoothOut[1], smoothCall.closeRadius,
                                                   smoothCall.edgeBlurPx))
  /\ UNCHANGED <<smoothCall, notSmoothVars>>

NextSmooth == SmoothWallMask \/ SmoothAgain

SpecSmooth == InitSmooth /\ [][NextSmooth]_vars

-----------------------------------------------------------------------------
(* SpecCanvas: drawQuadWarp on a context in any state, with a source that  *)
(* may be empty; and one draw of the overlay through renderTiledWall, the  *)
(* floor passes and the mask                                               *)

FLOOR_LIGHTING_STRENGTH == 1200
NOISE_OPACITY == 15
FLOOR_NOISE_OPACITY == 20

\* the states a caller may hand a context over in
CallerContexts ==
  {[saved |-> saved, clip |-> clip, transform |-> transform,
    globalCompositeOperation |-> operation, globalAlpha |-> alpha,
    draws |-> 0, lastDraw |-> NoDraw] :
     saved \in {<<>>, <<DrawingState(FreshContext)>>},
     clip \in {<<>>, <<"caller">>},
     transform \in {"identity", "caller"},
     operation \in {"source-over", "multiply"},
     alpha \in {1000, 500}}

InitCanvas ==
  /\ \/ \E c \in CallerContexts, sourceWidth \in {0, 4}, sourceHeight \in {0, 3} :
          canvasCall = [made |-> TRUE, kind |-> "drawQuadWarp", ctx |-> c,
                        sourceWidth |-> sourceWidth, sourceHeight |-> sourceHeight]
     \/ \E surface \in {"wall", "floor"}, valid \in BOOLEAN,
           lighting \in {"none", "other size", "wall size"} :
          canvasCall = [made |-> TRUE, kind |-> "render", ctx |-> FreshContext,
                        surface |-> surface, valid |-> valid, lighting |-> lighting,
                        sourceWidth |-> 4, sourceHeight |-> 3]
  /\ contexts = [pc |-> "call", ctx |-> canvasCall.ctx, offCtx |-> FreshContext,
                 tiledOff |-> FreshContext, iy |-> 0]
  /\ NotCanvasIdle

\* drawQuadWarp(ctx, source, destQuad, sourceWidth, sourceHeight): one turn
\* of its loop over iy; it returns after the last
DrawQuadWarpRow ==
  /\ canvasCall.kind = "drawQuadWarp" /\ contexts.pc = "call"
  /\ contexts' = [contexts EXCEPT
                    !.pc = IF contexts.iy + 1 = HOMOGRAPHY_SUBDIV THEN "returned" ELSE @,
                    !.iy = @ + 1,
                    !.ctx = warpRowOn(@, contexts.iy, canvasCall.sourceWidth,
                                      canvasCall.sourceHeight)]
  /\ UNCHANGED <<canvasCall, notCanvasVars>>

\* renderTiledWall(offCtx, ...) up to the lighting: the size tests, then the
\* pattern and the grout on its offscreen context
TilePattern ==
  /\ canvasCall.kind = "render" /\ contexts.pc = "call"
  /\ contexts' = IF canvasCall.valid
                 THEN [contexts EXCEPT !.pc = "tiled", !.tiledOff = tilePatternOn(@)]
                 ELSE [contexts EXCEPT !.pc = "warped"]
  /\ UNCHANGED <<canvasCall, notCanvasVars>>

LightingPass ==
  /\ contexts.pc = "tiled"
  /\ contexts' = [contexts EXCEPT !.pc = "lit",
                  !.tiledOff = lightingPass(@, canvasCall.lighting,
                                 IF canvasCall.surface = "floor" THEN FLOOR_LIGHTING_STRENGTH
                                 ELSE 1000)]
  /\ UNCHANGED <<canvasCall, notCanvasVars>>

NoisePass ==
  /\ contexts.pc = "lit"
  /\ contexts' = [contexts EXCEPT !.pc = "noised",
                  !.tiledOff = noisePass(@, IF canvasCall.surface = "floor"
                                              THEN FLOOR_NOISE_OPACITY ELSE NOISE_OPACITY)]
  /\ UNCHANGED <<canvasCall, notCanvasVars>>

\* drawQuadWarp(ctx, off, wallQuad, wallWidthPx, wallHeightPx), ctx being the
\* overlay's offscreen context: one turn of its loop over iy
WarpTilesRow ==
  /\ contexts.pc = "noised"
  /\ contexts' = [contexts EXCEPT
                    !.pc = IF contexts.iy + 1 = HOMOGRAPHY_SUBDIV THEN "warped" ELSE @,
                    !.iy = @ + 1,
                    !.offCtx = warpRowOn(@, contexts.iy, canvasCall.sourceWidth,
                                         canvasCall.sourceHeight)]
  /\ UNCHANGED <<canvasCall, notCanvasVars>>

\* the three floor passes, then ctx.drawImage(off) and the mask
CompositeMask ==
  /\ contexts.pc = "warped"
  /\ contexts' = [contexts EXCEPT !.pc = "returned",
                  !.offCtx = IF canvasCall.surface = "floor"
                               THEN floorPass(floorPass(floorPass(@, "multiply"), "color"),
                                              "multiply")
                               ELSE @,
                  !.ctx = compositeMask(@)]
  /\ UNCHANGED <<canvasCall, notCanvasVars>>

NextCanvas ==
  \/ DrawQuadWarpRow
  \/ TilePattern
  \/ LightingPass
  \/ NoisePass
  \/ WarpTilesRow
  \/ CompositeMask

SpecCanvas == InitCanvas /\ [][NextCanvas]_vars

-----------------------------------------------------------------------------
(* The page and its wall overlay *)

Init == InitPage /\ CombineIdle /\ DepthIdle /\ RenderIdle /\ OverlayIdle /\ CallsIdle

Urls == 1..MaxUploads

Next ==
  \/ HandleImageLoad
  \/ \E url \in Urls : DepthResolved(url)
  \/ \E url \in Urls : DepthRejected(url)
  \/ \E url \in Urls : WallResolved(url)
  \/ \E url \in Urls : WallRejected(url)
  \/ \E url \in Urls : FloorResolved(url)
  \/ \E url \in Urls : FloorRejected(url)
  \/ HandleCanvasClick
  \/ HandleResetCorners
  \/ SelectWallTile
  \/ OverlayTileOnload
  \/ OverlayRoomOnload

Spec == Init /\ [][Next]_vars

\* the overlay under app/page.tsx
InitUnderPage ==
  InitOverlay /\ InitPage /\ CombineIdle /\ DepthIdle /\ RenderIdle /\ CallsIdle

SpecOverlay == InitUnderPage /\ [][NextOverlay]_vars

-----------------------------------------------------------------------------
(* Claims about combineMasks and buildWallMask *)

Pixels(img) == 1..(img.width * img.height)

\* C8: for masks A and B of equal size, combineMasks returns a new mask whose
\* alpha at every pixel is min(A.alpha, B.alpha) and whose RGB is 255, and it
\* leaves A and B as they were.
C8_CombineIsMin ==
  combined # NoImage =>
    /\ combined.width = maskA.width /\ combined.height = maskA.height
    /\ Len(combined.data) = 4 * maskA.width * maskA.height
    /\ \A p \in Pixels(maskA) :
         LET a == maskA.data[4 * p]
             b == maskB.data[4 * p]
         IN  /\ combined.data[4 * p] = (IF a <= b THEN a ELSE b)
             /\ combined.data[4 * p - 1] = 255
             /\ combined.data[4 * p - 2] = 255
             /\ combined.data[4 * p - 3] = 255

\* C8, its last part: no step changes the two argument masks
C8_InputsKept == [][maskA' = maskA /\ maskB' = maskB]_vars

C8_Witness ==
  /\ combined # NoImage
  /\ \E p, q \in Pixels(maskA) :
       /\ maskA.data[4 * p] < maskB.data[4 * p]
       /\ maskB.data[4 * q] < maskA.data[4 * q]
       /\ maskA.data[4 * p - 1] = 0

\* sampled depth of output pixel p and the wall depth of the call, over one denominator
DepthOfPixel(c, p) ==
  depthAt(c.dm, c.outputWidth, c.outputHeight,
          4 * ((p - 1) % c.outputWidth), 4 * ((p - 1) \div c.outputWidth))

WallDepthOfCall(c) == wallDepthOf(c.dm, c.quad, c.outputWidth, c.outputHeight)

InBandAbove(c, p) ==
  WithinDelta(DepthOfPixel(c, p) - WallDepthOfCall(c), WallDepthOfCall(c),
              DepthDen(c.outputWidth, c.outputHeight), DepthTolerance)

InBandBelow(c, p) ==
  WithinDelta(WallDepthOfCall(c) - DepthOfPixel(c, p), WallDepthOfCall(c),
              DepthDen(c.outputWidth, c.outputHeight), DepthTolerance)

\* C10 as claimed: a pixel is wall (alpha 255) exactly when its depth lies in
\* the band wallDepth - delta <= d <= wallDepth + delta, and is 0 on either side.
C10_TwoSidedBand ==
  depthMask # NoImage =>
    \A p \in Pixels(depthMask) :
      depthMask.data[4 * p] = (IF InBandAbove(depthCall, p) /\ InBandBelow(depthCall, p)
                                 THEN 255 ELSE 0)

\* C10 as amended: the test is one-sided.  With depthCloserIsHigher a pixel is
\* wall exactly when d <= wallDepth + delta (every depth below the band is wall
\* too); without it, exactly when d >= wallDepth - delta.
C10_OneSidedBand ==
  depthMask # NoImage =>
    \A p \in Pixels(depthMask) :
      depthMask.data[4 * p] =
        (IF (IF depthCall.depthCloserIsHigher THEN InBandAbove(depthCall, p)
                                              ELSE InBandBelow(depthCall, p))
           THEN 255 ELSE 0)

\* a call whose output has a pixel below the band, one inside it and one above it
C10_Witness ==
  /\ depthMask # NoImage
  /\ \E p, q, r \in Pixels(depthMask) :
       /\ ~InBandBelow(depthCall, p)
       /\ InBandAbove(depthCall, q) /\ InBandBelow(depthCall, q)
       /\ ~InBandAbove(depthCall, r)


FlatDepth(dm) == \A i \in 1..Len(dm.depth) : dm.depth[i] = dm.depth[1]

\* C11: for a depth map with the same (finite) value everywhere, buildWallMask
\* returns alpha 255 at every output pixel, for both values of
\* depthCloserIsHigher, every quad and every output size.
C11_FlatDepthIsAllWall ==
  (depthMask # NoImage /\ FlatDepth(depthCall.dm)) =>
    /\ depthMask.width = depthCall.outputWidth
    /\ depthMask.height = depthCall.outputHeight
    /\ \A p \in Pixels(depthMask) : depthMask.data[4 * p] = 255

\* a flat map of a negative depth under the skew quad, for each flag value in turn
C11_Witness ==
  /\ depthMask # NoImage /\ FlatDepth(depthCall.dm)
  /\ depthCall.dm.depth[1] < 0
  /\ depthCall.quad[1].x < 0 /\ depthCall.quad[2].x > depthCall.outputWidth
  /\ ~depthCall.depthCloserIsHigher
  /\ depthMask.data[4] = 255

-----------------------------------------------------------------------------
(* Claims about one render pass of the overlay, on pixels *)

\* the raw mask the priority names for the present inputs: the depth map's
\* wall mask, else the segmentation mask, else the edge mask, else none
PriorityRaw ==
  IF passProps.depthMap # NoDepth
    THEN buildWallMask(passProps.depthMap, passProps.corners, passProps.width,
                       passProps.height, DepthTolerance, passProps.depthCloserIsHigher)
  ELSE IF passProps.wallMask # NoImage THEN passProps.wallMask
  ELSE edgeMaskData

\* C2: in every render pass the occlusion source is the depth map if present,
\* otherwise the segmentation mask if present, otherwise the edge-based mask
\* if computed; the chosen source goes through smoothWallMask (closeRadius 3,
\* edgeBlurPx 2) and the smoothed mask is what is combined with the quad mask.
C2_PriorityThenSmooth ==
  pass.ran =>
    /\ pass.source = (IF passProps.depthMap # NoDepth THEN "depth"
                      ELSE IF passProps.wallMask # NoImage THEN "wall"
                      ELSE IF edgeMaskData # NoImage THEN "edge" ELSE "none")
    /\ pass.source # "none" =>
         /\ pass.occlusionMask = smoothWallMask(PriorityRaw, 3, 2)
         /\ \A p \in 1..(passProps.width * passProps.height) :
              pass.mask.data[4 * p] =
                MathMin(pass.quadMask.data[4 * p], pass.occlusionMask.data[4 * p])

\* a pass with all three sources present, in which depth was used and the
\* smoothed depth mask differs from the smoothed segmentation and edge masks
C2_Witness ==
  /\ pass.ran
  /\ passProps.depthMap # NoDepth /\ passProps.wallMask # NoImage /\ edgeMaskData # NoImage
  /\ pass.source = "depth"
  /\ pass.occlusionMask # smoothWallMask(passProps.wallMask, 3, 2)
  /\ pass.occlusionMask # smoothWallMask(edgeMaskData, 3, 2)
  /\ pass.occlusionMask # PriorityRaw

\* C5 as claimed: with neither a depth map nor a segmentation mask, the final
\* mask of a render pass equals the feathered quad mask exactly.
C5_NoDepthNoSegIsQuadMask ==
  (pass.ran /\ passProps.depthMap = NoDepth /\ passProps.wallMask = NoImage) =>
    pass.mask = pass.quadMask

\* C5 as amended: the final mask equals the feathered quad mask exactly when
\* there is no depth map, no segmentation mask and no edge mask either; with
\* only the edge mask present the final alpha is min(quad alpha, smoothed edge
\* alpha), which is 0 wherever the smoothed edge mask is 0.
C5_QuadMaskOnlyWithoutEdgeMask ==
  (pass.ran /\ passProps.depthMap = NoDepth /\ passProps.wallMask = NoImage) =>
    IF edgeMaskData = NoImage
      THEN pass.mask = pass.quadMask
      ELSE LET smoothed == smoothWallMask(edgeMaskData, 3, 2).data
           IN  \A p \in 1..(passProps.width * passProps.height) :
                 pass.mask.data[4 * p] = MathMin(pass.quadMask.data[4 * p], smoothed[4 * p])

\* both cases occur: here the edge-only case, with a pixel the quad mask keeps
\* and the edge mask removes
C5_Witness ==
  /\ pass.ran /\ passProps.depthMap = NoDepth /\ passProps.wallMask = NoImage
  /\ edgeMaskData # NoImage
  /\ \E p \in 1..(passProps.width * passProps.height) :
       pass.quadMask.data[4 * p] = 255 /\ pass.mask.data[4 * p] = 0

\* the pixels of the overlay within Chebyshev distance r of pixel p (p from 1)
Within(p, r) ==
  {q \in 1..(passProps.width * passProps.height) :
     /\ Abs(((q - 1) % passProps.width) - ((p - 1) % passProps.width)) <= r
     /\ Abs(((q - 1) \div passProps.width) - ((p - 1) \div passProps.width)) <= r}

InQuad(p) ==
  insideQuad(passProps.corners, (p - 1) % passProps.width, (p - 1) \div passProps.width)

InHole(p) == passProps.wallMask.data[4 * p] = 0

\* the hole survives the close at p: some 7 x 7 window inside the hole covers p
HoleAfterClose(p) == \E c \in Within(p, 3) : \A h \in Within(c, 3) : InHole(h)

\* C9 as claimed: with the segmentation mask (a disc of alpha 0 inside the
\* quad, 255 elsewhere) as the occlusion source, the overlay is transparent at
\* exactly the pixels of the disc and shows the tile everywhere else in the quad.
C9_TransparentExactlyInCircle ==
  (pass.ran /\ pass.source = "wall") =>
    \A p \in 1..(passProps.width * passProps.height) :
      InQuad(p) => ((pass.overlay[p] = 0) <=> InHole(p))

\* C9 as amended: the overlay is transparent at a pixel of the quad exactly
\* when every pixel within 2 of it is still in the hole after the close of
\* radius 3, that is, is covered by a 7 x 7 window lying inside the hole;
\* every other pixel of the quad shows the tile with alpha above 0.  A hole
\* that holds no 7 x 7 window is filled completely, and the rim of a larger
\* hole shows the tile partially.
C9_TransparentWhereHoleSurvives ==
  (pass.ran /\ pass.source = "wall") =>
    \A p \in 1..(passProps.width * passProps.height) :
      /\ InQuad(p) =>
           ((pass.overlay[p] = 0) <=> (\A q \in Within(p, 2) : HoleAfterClose(q)))
      /\ ~InQuad(p) => pass.overlay[p] = 0

\* the largest disc: transparent at its centre, tile showing at its rim
C9_Witness ==
  /\ pass.ran /\ pass.source = "wall"
  /\ \E p, q \in 1..(passProps.width * passProps.height) :
       /\ InQuad(p) /\ InHole(p) /\ pass.overlay[p] = 0
       /\ InQuad(q) /\ InHole(q) /\ pass.overlay[q] > 0

-----------------------------------------------------------------------------
(* Claims about the page's requests and the source its overlay draws with *)

\* C1 as claimed: results of requests started for a superseded photo are
\* dropped; depthMap, wallMask and floorMask never hold a result computed
\* from a photo other than the current roomImageUrl.
C1_ResultsOfCurrentPhotoOnly ==
  /\ depthMap \in {0, roomImageUrl}
  /\ wallMask \in {0, roomImageUrl}
  /\ floorMask \in {0, roomImageUrl}

\* C3: once the depth request and the wall segmentation request of the current
\* photo have both resolved, every render pass of the overlay uses the depth
\* map as its occlusion source, in whichever order the two resolved.
C3_DepthOnceBothResolved ==
  (settled["depth"] = "resolved" /\ settled["wall"] = "resolved" /\ shown.ran) =>
    shown.source = "depth"

\* both resolved for the current photo, the edge mask is there as well, and
\* the overlay has drawn
C3_Witness ==
  /\ settled["depth"] = "resolved" /\ settled["wall"] = "resolved"
  /\ shown.ran
  /\ shown.depthMap = roomImageUrl /\ shown.wallMask = roomImageUrl
  /\ shown.edgeMask # 0

\* C4 as claimed: after the current photo's depth request rejected, depthMap
\* stays null, depthError is set and a render pass uses the next tier (the
\* segmentation mask if there is one, else the edge mask, else none); the same
\* for a rejected wall segmentation request.
C4_RejectionFallsThrough ==
  /\ settled["depth"] = "rejected" =>
       /\ depthMap = 0
       /\ depthError
       /\ shown.ran =>
            shown.source = (IF wallMask # 0 THEN "wall"
                            ELSE IF overlay.edgeMask # 0 THEN "edge" ELSE "none")
  /\ settled["wall"] = "rejected" =>
       /\ wallMask = 0
       /\ wallMaskError
       /\ shown.ran => shown.source # "wall"

-----------------------------------------------------------------------------
(* Claims about the overlay's image loads and the sizes of its masks *)

PassesRun == {i \in 1..2 : passes[i].ran}

\* C6 as claimed: the tile image, the room image and the edge mask a render
\* pass uses all belong to the current tileImageUrl and roomImageUrl props; an
\* onload of an image whose URL has been replaced never becomes the image or
\* the edge mask of a pass.
C6_PassReadsCurrentImages ==
  \A i \in PassesRun :
    /\ passes[i].tile = overlayProps.tileImageUrl
    /\ passes[i].room \in {"null", overlayProps.roomImageUrl}
    /\ passes[i].edgeMask.url \in {"null", overlayProps.roomImageUrl}

\* C7 as claimed: in every render pass the masks given to combineMasks (the
\* quad mask and the occlusion mask) and the mask given to the destination-in
\* step have the width and height of the output canvas, also in the pass right
\* after the width or height changed.
C7_MasksHaveCanvasSize ==
  \A i \in PassesRun :
    LET canvas == [width |-> passes[i].width, height |-> passes[i].height]
    IN  /\ passes[i].mask = canvas
        /\ passes[i].source # "none" =>
             passes[i].quadMask = canvas /\ passes[i].occlusionMask = canvas

-----------------------------------------------------------------------------
(* Claims about the warp engine *)

Collinear(a, b, c) == (b.x - a.x) * (c.y - a.y) - (b.y - a.y) * (c.x - a.x) = 0

\* three or more corners on one line (coincident corners included)
DegenerateQuad(q) ==
  \E i, j, k \in 1..4 : i < j /\ j < k /\ Collinear(q[i], q[j], q[k])

\* the pixels of the destination context that the drawImage calls painted
WarpPainted ==
  UNION {ClipPixels(t[1], t[2], t[3], WarpCanvas, WarpCanvas) : t \in warpOut.draws}

\* C12: when the destination quad is degenerate (three or more collinear
\* corners, or zero area), drawQuadWarp paints no pixel of the destination
\* context.
C12_DegenerateDrawsNothing ==
  (warpOut.done /\ DegenerateQuad(warpCall.destQuad)) => WarpPainted = {}

Orient(a, b, c) == (b.x - a.x) * (c.y - a.y) - (b.y - a.y) * (c.x - a.x)

\* the segments a b and c d cross
SegmentsCross(a, b, c, d) ==
  /\ Orient(a, b, c) * Orient(a, b, d) < 0
  /\ Orient(c, d, a) * Orient(c, d, b) < 0

\* no three corners on a line and no two opposite edges crossing
ValidSimpleQuad(q) ==
  /\ ~DegenerateQuad(q)
  /\ ~SegmentsCross(q[1], q[2], q[3], q[4])
  /\ ~SegmentsCross(q[2], q[3], q[4], q[1])

ConvexQuad(q) ==
  LET o == <<Orient(q[1], q[2], q[3]), Orient(q[2], q[3], q[4]),
             Orient(q[3], q[4], q[1]), Orient(q[4], q[1], q[2])>>
  IN  (\A k \in 1..4 : o[k] > 0) \/ (\A k \in 1..4 : o[k] < 0)

WithinOnePixel(v, target) == ~FLess(Num(1), FAbs(FSub(v, Num(target))))

\* C19: for a valid simple quad the warp takes the source corners (0,0),
\* (srcW,0), (srcW,srcH), (0,srcH) to within one pixel of the destination
\* corners p0, p1, p2, p3 in that order.
C19_CornersOntoQuad ==
  (warpOut.done /\ ValidSimpleQuad(warpCall.destQuad)) =>
    \A i \in 1..4 :
      /\ WithinOnePixel(warpOut.corners[i].x, warpCall.destQuad[i].x)
      /\ WithinOnePixel(warpOut.corners[i].y, warpCall.destQuad[i].y)

\* a quad with a reflex corner whose third corner the warp hits exactly
C19_Witness ==
  /\ warpOut.done
  /\ ValidSimpleQuad(warpCall.destQuad) /\ ~ConvexQuad(warpCall.destQuad)
  /\ warpOut.corners[3].x = Num(warpCall.destQuad[3].x)
  /\ warpOut.corners[3].y = Num(warpCall.destQuad[3].y)
  /\ warpOut.draws # {}

-----------------------------------------------------------------------------
(* Claims about renderTiledWall *)

TiledBBox == quadToBBox(tiledCall.wallQuad)

\* an argument that breaks an input invariant of renderTiledWall
TiledInputViolation ==
  \/ TiledBBox.width[1] <= 0 \/ TiledBBox.height[1] <= 0
  \/ tiledCall.tileSizeMM.width <= 0 \/ tiledCall.tileSizeMM.height <= 0
  \/ tiledCall.wallSizeMM.width <= 0 \/ tiledCall.wallSizeMM.height <= 0
  \/ tiledCall.imgW <= 0 \/ tiledCall.imgH <= 0

\* C13: renderTiledWall draws nothing into ctx, and returns normally, when
\* the bounding box of the quad has width or height <= 0, when a tile or
\* wall size in mm is <= 0, or when the tile image has natural width or
\* height <= 0.
C13_InvalidInputDrawsNothing ==
  (tiledOut.made /\ TiledInputViolation) =>
    (~tiledOut.out.drawn /\ tiledOut.out.draws = {} /\ ~tiledOut.out.off.present)

\* a quad whose bounding box has no width, with every other argument in order
C13_Witness ==
  /\ tiledOut.made
  /\ TiledBBox.width[1] <= 0 /\ TiledBBox.height[1] > 0
  /\ tiledCall.tileSizeMM.width > 0 /\ tiledCall.tileSizeMM.height > 0
  /\ tiledCall.wallSizeMM.width > 0 /\ tiledCall.wallSizeMM.height > 0
  /\ tiledCall.imgW > 0 /\ tiledCall.imgH > 0
  /\ ~tiledOut.out.drawn

\* C13, the overlay: no pass of the render effect runs unless there are
\* exactly 4 corners, a tile image whose onload has fired and non-zero
\* output dimensions.
C13_EffectGuard ==
  \A i \in 1..2 :
    passes[i].ran =>
      /\ overlayProps.corners = 4
      /\ passes[i].tile # "null"
      /\ overlayProps.width > 0 /\ overlayProps.height > 0

\* the whole tiles of period step that fit into size pixels
WholeTiles(size, step) == FFloor(FDiv(Num(size), step))

IsWhole(v) == v[2] = 1

\* C20: the offscreen buffer holds floor(tilesAcross) whole tiles followed by
\* a partial tile exactly when tilesAcross is not a whole number, the count
\* being surfaceWidthMM / tileWidthMM and one repetition spanning
\* bboxWidthPx / tilesAcross pixels; likewise vertically.
C20_WholeTilesThenPartial ==
  (tiledOut.made /\ tiledOut.out.drawn) =>
    LET out == tiledOut.out
        partialX == FLess(FMul(Num(WholeTiles(out.off.width, out.period.x)), out.period.x),
                          Num(out.off.width))
        partialY == FLess(FMul(Num(WholeTiles(out.off.height, out.period.y)), out.period.y),
                          Num(out.off.height))
    IN  /\ out.tilesX = Frac(tiledCall.wallSizeMM.width, tiledCall.tileSizeMM.width)
        /\ out.tilesY = Frac(tiledCall.wallSizeMM.height, tiledCall.tileSizeMM.height)
        /\ out.period.x = FDiv(TiledBBox.width, out.tilesX)
        /\ out.period.y = FDiv(TiledBBox.height, out.tilesY)
        /\ WholeTiles(out.off.width, out.period.x) = FFloor(out.tilesX)
        /\ WholeTiles(out.off.height, out.period.y) = FFloor(out.tilesY)
        /\ partialX <=> ~IsWhole(out.tilesX)
        /\ partialY <=> ~IsWhole(out.tilesY)

-----------------------------------------------------------------------------
(* Claims about the lighting map *)

LightBBox == quadToBBox(lightCall.quad)

C14_WitnessFractional ==
  /\ lightOut.made /\ ~IsWhole(LightBBox.width)
  /\ lightOut.map # NoImage /\ lightOut.lightingCanvas = NoImage
  /\ ~lightOut.tiled.lit /\ lightOut.tiled.drawn

\* C15: every pixel of a lighting map that extractLightingMap returns has
\* R = G = B in [LIGHTING_FLOOR, 255] and alpha 255.
C15_LightingMapAboveFloor ==
  (lightOut.made /\ lightOut.map # NoImage) =>
    \A p \in Pixels(lightOut.map) :
      LET d == lightOut.map.data
          i == 4 * (p - 1)
      IN  /\ d[i + 1] = d[i + 2] /\ d[i + 2] = d[i + 3]
          /\ d[i + 1] >= LIGHTING_FLOOR /\ d[i + 1] <= 255
          /\ d[i + 4] = 255

\* a map that reaches both ends of the range, made under a mask with foreground
C15_Witness ==
  /\ lightOut.made /\ lightOut.map # NoImage
  /\ \E p \in Pixels(lightOut.map) : lightOut.map.data[4 * p - 3] = LIGHTING_FLOOR
  /\ \E p \in Pixels(lightOut.map) : lightOut.map.data[4 * p - 3] = 255
  /\ \E p \in Pixels(lightCall.occlusionMask) : lightCall.occlusionMask.data[4 * p] = 0

-----------------------------------------------------------------------------
(* Claims about the quad mask and its feathering *)

\* the pixel centre (x + 0.5, y + 0.5) lies on the edge a b (doubled coordinates)
OnEdge(a, b, x, y) ==
  /\ cross2(a, b, x, y) = 0
  /\ ((2 * x + 1) - 2 * a.x) * ((2 * x + 1) - 2 * b.x) <= 0
  /\ ((2 * y + 1) - 2 * a.y) * ((2 * y + 1) - 2 * b.y) <= 0

\* the ray from the pixel centre to the right crosses the edge a b; a centre's
\* y is never a corner's y, so no crossing goes through a corner
RayCrosses(a, b, x, y) ==
  /\ (2 * a.y > 2 * y + 1) # (2 * b.y > 2 * y + 1)
  /\ IF b.y > a.y THEN cross2(a, b, x, y) > 0 ELSE cross2(a, b, x, y) < 0

\* the pixel centre lies inside or on the polygon with the corners q, by the
\* parity of the crossings of a ray
CentreInQuad(q, x, y) ==
  LET edges == {<<q[1], q[2]>>, <<q[2], q[3]>>, <<q[3], q[4]>>, <<q[4], q[1]>>}
  IN  \/ \E e \in edges : OnEdge(e[1], e[2], x, y)
      \/ Cardinality({e \in edges : RayCrosses(e[1], e[2], x, y)}) % 2 = 1

FeatherPixel(x, y) == y * featherCall.width + x + 1
FeatherXs == 0..(featherCall.width - 1)
FeatherYs == 0..(featherCall.height - 1)

\* the binary mask is the set of pixels whose centre is inside or on the quad
RasterIsQuad(q) ==
  \A x \in FeatherXs, y \in FeatherYs :
    (featherOut.alpha[FeatherPixel(x, y)] = 255) <=> CentreInQuad(q, x, y)

SameWhenReversed ==
  featherOut.alpha
    = quadAlpha(featherCall.width, featherCall.height, Reversed(featherCall.quad))

\* C16 as stated: for any simple quad, convex or not and of either winding
\* order, the rasterizer marks a pixel exactly when its centre lies inside or
\* on the quad, and the corners in reverse order give the same mask.
C16_SimpleQuadRaster ==
  (featherOut.made /\ ValidSimpleQuad(featherCall.quad)) =>
    (RasterIsQuad(featherCall.quad) /\ SameWhenReversed)

\* C16 on convex quads: for any convex quad of either winding order, the rasterizer
\* marks a pixel exactly when its centre lies inside or on the quad; for any
\* quad the corners in reverse order give the same mask.
C16_ConvexQuadRaster ==
  featherOut.made =>
    /\ ConvexQuad(featherCall.quad) => RasterIsQuad(featherCall.quad)
    /\ SameWhenReversed

\* a clockwise-on-screen convex quad that is no rectangle, with pixels marked
\* and pixels left out
C16_Witness ==
  /\ featherOut.made
  /\ ConvexQuad(featherCall.quad)
  /\ Orient(featherCall.quad[1], featherCall.quad[2], featherCall.quad[3]) < 0
  /\ featherCall.quad[1].y # featherCall.quad[2].y
  /\ \E p, q \in 1..Len(featherOut.alpha) :
       featherOut.alpha[p] = 255 /\ featherOut.alpha[q] = 0

\* the alpha of the returned mask at pixel (x, y)
FeatherAlpha(x, y) == featherOut.mask.data[4 * FeatherPixel(x, y)]

\* the radius createFeatheredQuadMask blurs with
FeatherRadius ==
  IF featherCall.featherPx \div 2 < 1 THEN 1 ELSE featherCall.featherPx \div 2

\* the offsets of the pixels no farther than the blur radius along either axis
FeatherReach == (0 - FeatherRadius)..FeatherRadius

AlphaInRange ==
  \A x \in FeatherXs, y \in FeatherYs : FeatherAlpha(x, y) \in 0..255

\* no pixel centre within the blur radius of (x, y) is inside or on the quad
FartherOutside(q, x, y) ==
  \A dx \in FeatherReach, dy \in FeatherReach : ~CentreInQuad(q, x + dx, y + dy)

\* every pixel centre within the blur radius of (x, y) is inside or on the quad
FartherInside(q, x, y) ==
  \A dx \in FeatherReach, dy \in FeatherReach : CentreInQuad(q, x + dx, y + dy)

ZeroFarOutside(q) ==
  \A x \in FeatherXs, y \in FeatherYs : FartherOutside(q, x, y) => FeatherAlpha(x, y) = 0

FullFarInside(q) ==
  \A x \in FeatherXs, y \in FeatherYs : FartherInside(q, x, y) => FeatherAlpha(x, y) = 255

\* along every row and every column alpha never rises again after it fell:
\* walking from the border into the quad it does not decrease
RisesIntoQuad ==
  /\ \A y \in FeatherYs : \A x1, x2, x3 \in FeatherXs :
       (x1 < x2 /\ x2 < x3) =>
         ~(FeatherAlpha(x1, y) > FeatherAlpha(x2, y) /\ FeatherAlpha(x2, y) < FeatherAlpha(x3, y))
  /\ \A x \in FeatherXs : \A y1, y2, y3 \in FeatherYs :
       (y1 < y2 /\ y2 < y3) =>
         ~(FeatherAlpha(x, y1) > FeatherAlpha(x, y2) /\ FeatherAlpha(x, y2) < FeatherAlpha(x, y3))

\* an axis-parallel square with the same margin to all four borders
CentredSquare(q) ==
  /\ featherCall.width = featherCall.height
  /\ ConvexQuad(q)
  /\ \E m \in 0..(featherCall.width \div 2) :
       \A k \in 1..4 : /\ q[k].x \in {m, featherCall.width - m}
                       /\ q[k].y \in {m, featherCall.height - m}

MirrorSymmetric ==
  \A x \in FeatherXs, y \in FeatherYs :
    /\ FeatherAlpha(x, y) = FeatherAlpha(featherCall.width - 1 - x, y)
    /\ FeatherAlpha(x, y) = FeatherAlpha(x, featherCall.height - 1 - y)

FeatherTransition(q) ==
  /\ AlphaInRange
  /\ ZeroFarOutside(q)
  /\ FullFarInside(q)
  /\ RisesIntoQuad
  /\ CentredSquare(q) => MirrorSymmetric

\* C17 as stated: for the feathered mask of a simple quad every alpha is in
\* [0,255], pixels farther outside the quad than the blur radius have alpha 0,
\* pixels farther inside than the blur radius have alpha 255, alpha does not
\* decrease on a straight path from outside to inside, and the mask of a
\* centred square is symmetric under left-right and top-bottom reflection.
C17_FeatherTransition ==
  (featherOut.made /\ ValidSimpleQuad(featherCall.quad)) =>
    FeatherTransition(featherCall.quad)

\* C17 on convex quads: the same five properties for every convex quad of
\* either winding order.
C17_ConvexFeatherTransition ==
  (featherOut.made /\ ConvexQuad(featherCall.quad)) =>
    FeatherTransition(featherCall.quad)

\* C18: createFeatheredQuadMask called with featherPx = 0 returns a hard-edged
\* mask: every alpha is 0 or 255 and equals the binary inside-quad test.
C18_FeatherZeroIsHardEdge ==
  (featherOut.made /\ featherCall.featherPx = 0) =>
    \A x \in FeatherXs, y \in FeatherYs :
      /\ FeatherAlpha(x, y) \in {0, 255}
      /\ FeatherAlpha(x, y) = featherOut.alpha[FeatherPixel(x, y)]

-----------------------------------------------------------------------------
(* Claims about the tile catalog *)

OnlyIdChars(s) == \A i \in 1..Len(s) : IsIdChar(s[i])

\* C21 as stated: every product id of the catalog consists only of lowercase
\* letters, digits and hyphens, and is the same on every fetch.
C21_ProductIdClean ==
  /\ \A n \in 1..Len(catalogOut) : \A i \in 1..Len(catalogOut[n]) :
       OnlyIdChars(catalogOut[n][i].id)
  /\ \A n, m \in 1..Len(catalogOut) : catalogOut[n] = catalogOut[m]

\* C21 amended: the id filenameToIdAndName derives from a filename is never
\* empty and consists only of lowercase letters, digits and hyphens; the
\* product id is the folder, that id and the filename itself joined by
\* hyphens; and every fetch of the same listing builds the same catalog.
C21_DerivedIdClean ==
  /\ \A n \in 1..Len(catalogOut) : \A i \in 1..Len(catalogOut[n]) :
       LET product == catalogOut[n][i]
           derived == filenameToIdAndName(product.imageUrl[2]).id
       IN  /\ derived # <<>> /\ OnlyIdChars(derived)
           /\ product.id = FolderChars[product.surface] \o <<"-">> \o derived
                             \o <<"-">> \o product.imageUrl[2]
  /\ \A n, m \in 1..Len(catalogOut) : catalogOut[n] = catalogOut[m]

\* two fetches, of a listing with a filename in capitals, spaces and an
\* extension whose derived id differs from it
C21_Witness ==
  /\ Len(catalogOut) = 2
  /\ \E i \in 1..Len(catalogOut[2]) :
       /\ catalogOut[2][i].imageUrl[2] = <<"T", "i", "l", "e", " ", "A", ".", "p", "n", "g">>
       /\ filenameToIdAndName(catalogOut[2][i].imageUrl[2]).id = <<"t", "i", "l", "e", "-", "a">>

-----------------------------------------------------------------------------
(* The loaders of the depth session and of the DeepLab model *)

DepthSettled(call) == call.pc \in {"fulfilled", "rejected"}
ImageError == "Failed to load image for depth"
PastGetSession(call) ==
  call.pc \in {"session", "run", "fulfilled"} \/ (call.pc = "rejected" /\ call.error # ImageError)

\* C22: for any interleaving of estimateDepth, segmentWall and segmentFloor
\* calls the load of the depth session and the load of the DeepLab model
\* are each started at most once, exactly once as soon as a caller has asked
\* for it, no model source is fetched twice, and every caller that awaited
\* the session or the model saw the outcome of the one shared promise.
C22_LoadedOnce ==
  /\ sessionLoad.starts <= 1 /\ cachedModel.starts <= 1
  /\ \A i \in 1..Len(depthCalls) : PastGetSession(depthCalls[i]) => sessionLoad.starts = 1
  /\ \A i \in SegSurfaces : segCalls[i].pc # "none" => cachedModel.starts = 1
  /\ \A j, k \in 1..Len(sessionLoad.fetched) :
       sessionLoad.fetched[j] = sessionLoad.fetched[k] => j = k
  /\ \A i \in 1..Len(depthCalls) :
       /\ depthCalls[i].pc \in {"run", "fulfilled"} => sessionPromise = Fulfilled
       /\ depthCalls[i].pc = "rejected" /\ depthCalls[i].error \notin {ImageError, "run failed"}
            => sessionPromise = Rejected(depthCalls[i].error)
  /\ \A i \in SegSurfaces :
       /\ segCalls[i].pc \in {"image", "fulfilled"} => cachedModel.promise = Fulfilled
       /\ segCalls[i].pc = "rejected" /\ segCalls[i].error = "DeepLab load failed"
            => cachedModel.promise = Rejected("DeepLab load failed")

C22_Witness ==
  /\ Len(depthCalls) = 2 /\ depthCalls[1].pc = "session" /\ depthCalls[2].pc = "session"
  /\ sessionPromise = Pending /\ sessionLoad.starts = 1
  /\ segCalls["wall"].pc = "model" /\ segCalls["floor"].pc = "model"
  /\ cachedModel = [promise |-> Pending, starts |-> 1]

\* C23: the model sources are fetched in the order local, proxy, CDN; a
\* source that answered ok is the last one fetched and is the one used; after
\* a source that threw or answered not ok the next one is fetched; and the
\* "Model fetch failed" error is raised only when all three have failed.
C23_FetchOrder ==
  LET fetched == sessionLoad.fetched
      answers == sessionLoad.answers
  IN  /\ Len(fetched) <= Len(ModelSources)
      /\ \A k \in 1..Len(fetched) : fetched[k] = ModelSources[k]
      /\ Len(answers) <= Len(fetched)
      /\ \A k \in 1..Len(answers) :
           /\ answers[k] = "ok" => k = Len(fetched) /\ sessionLoad.pc \in {"create", "done"}
                                      /\ sessionPromise.error # "Model fetch failed"
           /\ answers[k] # "ok" /\ k < Len(ModelSources) => Len(fetched) > k
      /\ sessionLoad.pc = "fetch" => Len(fetched) = Len(answers) + 1
      /\ sessionLoad.pc = "create" => answers # <<>> /\ answers[Len(answers)] = "ok"
      /\ sessionPromise.error = "Model fetch failed"
           => Len(answers) = Len(ModelSources) /\ \A k \in 1..Len(answers) : answers[k] # "ok"

C23_Witness ==
  /\ sessionLoad.answers = <<"notOk", "throws", "throws">>
  /\ sessionPromise = Rejected("Model fetch failed")

C23_WitnessProxyUsed ==
  /\ sessionLoad.answers = <<"throws", "ok">> /\ sessionLoad.fetched = <<"local", "proxy">>
  /\ sessionPromise = Fulfilled

\* C28 as stated: once the session promise has rejected, every estimateDepth
\* call made later that has settled has rejected with the error of the
\* session promise.
C28_FailurePermanent ==
  \A i \in 1..Len(depthCalls) :
    depthCalls[i].afterReject /\ DepthSettled(depthCalls[i])
      => depthCalls[i].pc = "rejected" /\ depthCalls[i].error = sessionPromise.error

LaterCallsReject ==
  \A i \in 1..Len(depthCalls) :
    depthCalls[i].afterReject
      => /\ sessionPromise.state = "rejected"
         /\ depthCalls[i].pc \notin {"run", "fulfilled"}
         /\ depthCalls[i].pc = "rejected"
              => depthCalls[i].error \in {sessionPromise.error, ImageError}
         /\ depthCalls[i].pc = "rejected" /\ PastGetSession(depthCalls[i])
              => depthCalls[i].error = sessionPromise.error

RejectedStays ==
  sessionPromise.state = "rejected"
    => sessionPromise' = sessionPromise /\ sessionLoad' = sessionLoad

\* C28: once the session promise has rejected it stays rejected with the
\* same error and the load never moves again (no new fetch); an
\* estimateDepth call made later never fulfils: it rejects with the error of
\* the session promise, or with the image error when its image does not load.
C28_FailurePermanentPastImage == []LaterCallsReject /\ [][RejectedStays]_vars

C28_Witness ==
  \E i \in 1..Len(depthCalls) :
    /\ depthCalls[i].afterReject
    /\ depthCalls[i].pc = "rejected"
    /\ depthCalls[i].error = "Model fetch failed"
    /\ sessionPromise = Rejected("Model fetch failed")

-----------------------------------------------------------------------------
(* fillWallFromBorder *)

FillPixels == 0..(fillIn.width * fillIn.height - 1)
FillX(idx) == idx % fillIn.width
FillY(idx) == idx \div fillIn.width
OnBorder(idx) ==
  FillX(idx) \in {0, fillIn.width - 1} \/ FillY(idx) \in {0, fillIn.height - 1}
Open(idx) == fillIn.edgeBarrier[idx] = 0
FourConnected(p, q) ==
  \/ FillX(p) = FillX(q) /\ FillY(p) - FillY(q) \in {-1, 1}
  \/ FillY(p) = FillY(q) /\ FillX(p) - FillX(q) \in {-1, 1}

RECURSIVE GrownFrom(_)
GrownFrom(S) ==
  LET more == {q \in FillPixels \ S : Open(q) /\ \E p \in S : FourConnected(p, q)}
  IN  IF more = {} THEN S ELSE GrownFrom(S \cup more)

\* the open pixels joined to an open border pixel by a 4-connected path of open pixels
BorderConnected == GrownFrom({p \in FillPixels : Open(p) /\ OnBorder(p)})

\* C24: the returned wall is 255 exactly on the non-barrier pixels that a
\* 4-connected path of non-barrier pixels joins to a non-barrier border pixel
\* and 0 elsewhere (enclosed pixels and barrier pixels); no index is enqueued
\* twice, nor a barrier index ever, so the loop ends within width * height turns.
C24_FillIsBorderComponent ==
  fill.pc \in {"while", "returned"} =>
    /\ \A j, k \in 1..Len(fill.pushed) : fill.pushed[j] = fill.pushed[k] => j = k
    /\ \A k \in 1..Len(fill.pushed) : fill.pushed[k] \in FillPixels /\ Open(fill.pushed[k])
    /\ Len(fill.pushed) <= fillIn.width * fillIn.height
    /\ \A idx \in FillPixels : ~Open(idx) => fill.wall[idx] = 0
    /\ \A idx \in FillPixels : fill.wall[idx] = 255 => idx \in BorderConnected
    /\ fill.pc = "returned" =>
         \A idx \in FillPixels :
           fill.wall[idx] = (IF idx \in BorderConnected THEN 255 ELSE 0)

\* a returned fill with an enclosed open pixel and open border pixels around it
C24_Witness ==
  /\ fill.pc = "returned"
  /\ \E idx \in FillPixels : Open(idx) /\ fill.wall[idx] = 0
  /\ \E idx \in FillPixels : fill.wall[idx] = 255

\* a returned fill that reached an inner pixel
C24_WitnessInner ==
  /\ fill.pc = "returned"
  /\ \E idx \in FillPixels : ~OnBorder(idx) /\ fill.wall[idx] = 255
  /\ \E idx \in FillPixels : ~Open(idx)

-----------------------------------------------------------------------------
(* The corner lists and selected tiles of the two surfaces *)

\* C25, its first part: neither corner list ever holds more than 4 points.
C25_AtMostFourCorners ==
  Len(visualizer.wallCorners) <= 4 /\ Len(visualizer.floorCorners) <= 4

\* the list holds at most 4 points as long as every event is followed by a render
AtMostFourWhenRendered ==
  rendered.events = 0 /\ rendered.closure.length <= 4 /\ visualizer.viewMode = "wall"
    => \A point \in ClickPoints :
         Len(handleCanvasClick(visualizer, rendered.closure, point).wallCorners) <= 4

\* a drag keeps the number of corners and every corner but the one at its
\* index; an index outside the list changes nothing
DragMovesOneCorner ==
  \A prev \in {visualizer.wallCorners, visualizer.floorCorners} :
    \A index \in -1..(Len(prev) + 1), point \in DragPoints :
      LET next == movedCorner(prev, index, point)
      IN  /\ Len(next) = Len(prev)
          /\ \A k \in 1..Len(prev) : k # index + 1 => next[k] = prev[k]
          /\ index + 1 \in 1..Len(prev) => next[index + 1] = point
          /\ index + 1 \notin 1..Len(prev) => next = prev

OtherSurfaceKept ==
  LET mode == rendered.closure.viewMode
  IN  IF visualizer'.roomImageUrl # visualizer.roomImageUrl
        THEN /\ visualizer'.wallCorners = <<>> /\ visualizer'.floorCorners = <<>>
             /\ visualizer'.selectedWallTile = visualizer.selectedWallTile
             /\ visualizer'.selectedFloorTile = visualizer.selectedFloorTile
        ELSE /\ mode = "wall" =>
                  /\ visualizer'.floorCorners = visualizer.floorCorners
                  /\ visualizer'.selectedFloorTile = visualizer.selectedFloorTile
             /\ mode = "floor" =>
                  /\ visualizer'.wallCorners = visualizer.wallCorners
                  /\ visualizer'.selectedWallTile = visualizer.selectedWallTile

\* C26: a click, drag, corner reset or tile selection handled in one view
\* mode (the mode its handler was rendered with) leaves the corners and the
\* selected tile of the other surface as they were; a step that loads a
\* photo clears the corners of both surfaces and keeps both tiles, and no
\* other step changes both surfaces.
C26_SurfacesIndependent == [][OtherSurfaceKept]_vars

\* the floor view with corners and a tile of its own, next to a wall that
\* kept other corners and no tile
C26_Witness ==
  /\ rendered.closure.viewMode = "floor"
  /\ visualizer.floorCorners = <<"q", "p">> /\ visualizer.selectedFloorTile = "tile1"
  /\ visualizer.wallCorners = <<"p", "p", "p">> /\ visualizer.selectedWallTile = "null"

-----------------------------------------------------------------------------
(* smoothWallMask *)

SmoothPixels == 1..(smoothCall.mask.width * smoothCall.mask.height)

\* the pixels of the mask within Chebyshev distance r of pixel p
SmoothNear(p, r) ==
  {q \in SmoothPixels :
     /\ Abs(((q - 1) % smoothCall.mask.width) - ((p - 1) % smoothCall.mask.width)) <= r
     /\ Abs(((q - 1) \div smoothCall.mask.width) - ((p - 1) \div smoothCall.mask.width)) <= r}

SetMax(S) == CHOOSE m \in S : \A v \in S : v <= m
SetMin(S) == CHOOSE m \in S : \A v \in S : m <= v

\* the close of radius r of the mask's alpha at pixel p: the least, over the
\* pixels q near p, of the greatest alpha near q
ClosedAt(p, r) ==
  SetMin({SetMax({smoothCall.mask.data[4 * s] : s \in SmoothNear(q, r)}) : q \in SmoothNear(p, r)})

\* C27: smoothWallMask returns a mask of the input's size with RGB 255 and
\* leaves the input as it was; with edgeBlurPx <= 0 its alpha is the close of
\* the input alpha with closeRadius clamped to [0,5], which is >= the input
\* alpha at every pixel and is unchanged by a second application; with
\* closeRadius <= 0 as well the alpha is the input alpha; an edgeBlurPx above
\* 4 gives what 4 gives.
C27_CloseExtensiveIdempotent ==
  smoothOut # <<>> =>
    LET out == smoothOut[1]
        mask == smoothCall.mask
        r == Clamp(0, 5, smoothCall.closeRadius)
    IN  /\ out.width = mask.width /\ out.height = mask.height
        /\ Len(out.data) = Len(mask.data)
        /\ \A p \in SmoothPixels :
             out.data[4 * p - 1] = 255 /\ out.data[4 * p - 2] = 255 /\ out.data[4 * p - 3] = 255
        /\ \A p \in SmoothPixels : mask.data[4 * p - 1] = 7
        /\ smoothCall.edgeBlurPx <= 0 =>
             /\ \A p \in SmoothPixels : out.data[4 * p] = ClosedAt(p, r)
             /\ \A p \in SmoothPixels : out.data[4 * p] >= mask.data[4 * p]
             /\ Len(smoothOut) = 2 => smoothOut[2] = out
             /\ smoothCall.closeRadius <= 0 =>
                  \A p \in SmoothPixels : out.data[4 * p] = mask.data[4 * p]
        /\ smoothCall.edgeBlurPx > 4 =>
             out = smoothWallMask(mask, smoothCall.closeRadius, 4)
        /\ smoothCall.closeRadius > 5 =>
             out = smoothWallMask(mask, 5, smoothCall.edgeBlurPx)

\* C27, its frame: no step changes the mask passed in
C27_InputKept == [][smoothCall' = smoothCall]_vars

\* a close without blur, applied twice, that raised a pixel and kept another at 0
C27_Witness ==
  /\ Len(smoothOut) = 2
  /\ smoothCall.closeRadius > 0 /\ smoothCall.edgeBlurPx = 0
  /\ \E p, q \in SmoothPixels :
       /\ smoothCall.mask.data[4 * p] = 0 /\ smoothOut[1].data[4 * p] = 255
       /\ smoothOut[1].data[4 * q] = 0

\* a close asked for with radius 6 whose result is not the close of radius 6
C27_WitnessClamped ==
  /\ Len(smoothOut) = 2
  /\ smoothCall.closeRadius = 6 /\ smoothCall.edgeBlurPx = 0
  /\ \E p \in SmoothPixels : smoothOut[1].data[4 * p] # ClosedAt(p, 6)

-----------------------------------------------------------------------------
(* The loading flags of the page *)

\* every request that was started settles: the image of a request loads or
\* fails, and the model runs to its end or throws
SettleFair ==
  /\ WF_vars(\E url \in Urls : DepthResolved(url) \/ DepthRejected(url))
  /\ WF_vars(\E url \in Urls : WallResolved(url) \/ WallRejected(url))
  /\ WF_vars(\E url \in Urls : FloorResolved(url) \/ FloorRejected(url))

\* the photo loads and their requests alone
NextRequests ==
  \/ HandleImageLoad
  \/ \E url \in Urls : DepthResolved(url)
  \/ \E url \in Urls : DepthRejected(url)
  \/ \E url \in Urls : WallResolved(url)
  \/ \E url \in Urls : WallRejected(url)
  \/ \E url \in Urls : FloorResolved(url)
  \/ \E url \in Urls : FloorRejected(url)

SpecSettling == Init /\ [][NextRequests]_vars /\ SettleFair

PendingOf(k) == \E url \in Urls : <<k, url>> \in pending

LoadingFlags ==
  /\ pending = {} => ~depthLoading /\ ~wallMaskLoading /\ ~floorMaskLoading
  /\ depthLoading => PendingOf("depth")
  /\ wallMaskLoading => PendingOf("wall")
  /\ floorMaskLoading => PendingOf("floor")
  /\ roomImageUrl = 1 =>
       /\ depthLoading <=> <<"depth", 1>> \in pending
       /\ wallMaskLoading <=> <<"wall", 1>> \in pending
       /\ floorMaskLoading <=> <<"floor", 1>> \in pending

\* C29: a loading flag that is true becomes false, whether its request
\* fulfils or rejects; when no request is pending all three flags are false;
\* and while one photo only has been loaded a flag is true exactly while its
\* request is pending.
C29_LoadingFlagsSettle ==
  /\ []LoadingFlags
  /\ depthLoading ~> ~depthLoading
  /\ wallMaskLoading ~> ~wallMaskLoading
  /\ floorMaskLoading ~> ~floorMaskLoading

\* after two loads every request has settled, the last depth request by
\* rejecting and the last wall request by fulfilling, and no flag is set
C29_Witness ==
  /\ roomImageUrl = 2 /\ pending = {}
  /\ settled["depth"] = "rejected" /\ settled["wall"] = "resolved"
  /\ ~depthLoading /\ ~wallMaskLoading /\ ~floorMaskLoading

\* with two loads in flight a flag can be false while a request of its kind is pending
C29_WitnessOverlap ==
  /\ roomImageUrl = 2 /\ <<"depth", 2>> \in pending /\ ~depthLoading

-----------------------------------------------------------------------------
(* The context state around the drawing operations *)

SavedState(c) == [saved |-> c.saved, state |-> DrawingState(c)]

BlendReset(c) == c.globalCompositeOperation = "source-over" /\ c.globalAlpha = 1000

\* C30: drawQuadWarp returns with the saved-state stack, the clip, the
\* transform, the blend mode and the alpha of its context as they were when
\* it was called, for an empty source (every triangle degenerate) as for a
\* drawn one; after the pattern, the lighting pass and the noise pass of
\* renderTiledWall its offscreen context has source-over and alpha 1 and
\* nothing saved; and after the mask step the context has source-over and alpha 1.
C30_ContextStateKept ==
  /\ canvasCall.kind = "drawQuadWarp" =>
       /\ SavedState(contexts.ctx) = SavedState(canvasCall.ctx)
       /\ contexts.ctx.draws =
            (IF canvasCall.sourceWidth * canvasCall.sourceHeight = 0 THEN 0
             ELSE 2 * HOMOGRAPHY_SUBDIV * contexts.iy)
  /\ canvasCall.kind = "render" =>
       /\ BlendReset(contexts.tiledOff) /\ contexts.tiledOff.saved = <<>>
       /\ SavedState(contexts.offCtx) = SavedState(FreshContext)
       /\ BlendReset(contexts.ctx) /\ contexts.ctx.saved = <<>>
       /\ contexts.pc = "returned" =>
            contexts.ctx.lastDraw.state.globalCompositeOperation = "destination-in"

\* drawQuadWarp with an empty source on a context with a saved state, a clip,
\* a transform, multiply and half alpha
C30_Witness ==
  /\ canvasCall.kind = "drawQuadWarp" /\ contexts.pc = "returned"
  /\ canvasCall.sourceWidth = 0
  /\ contexts.ctx.saved # <<>> /\ contexts.ctx.clip = <<"caller">>
  /\ contexts.ctx.transform = "caller"
  /\ contexts.ctx.globalCompositeOperation = "multiply" /\ contexts.ctx.globalAlpha = 500

\* a floor render whose lighting pass drew twice and whose noise pass drew last
C30_WitnessBlend ==
  /\ canvasCall.kind = "render" /\ contexts.pc = "returned"
  /\ canvasCall.surface = "floor" /\ canvasCall.lighting = "wall size"
  /\ contexts.tiledOff.draws = 5
  /\ contexts.tiledOff.lastDraw.state.globalCompositeOperation = "overlay"
  /\ contexts.tiledOff.lastDraw.state.globalAlpha = FLOOR_NOISE_OPACITY
  /\ contexts.offCtx.draws = (2 * HOMOGRAPHY_SUBDIV * HOMOGRAPHY_SUBDIV) + 3

=============================================================================
